---- MODULE Spec2Model ----
(***************************************************************************)
(* GraphCrawler: node lifecycle, transport lifecycle, batch fetching and   *)
(* the crawl loop, as state machines.                                      *)
(*                                                                         *)
(* The module holds several machines over one variable tuple.  Each has   *)
(* its own specification; the variables of the other machines stay at     *)
(* their idle value.                                                       *)
(*   SpecNode      Node.process_html called by several concurrent callers  *)
(*   SpecFetch     one AsyncDriver.fetch call and its lifecycle hooks      *)
(*   SpecFetchMany AsyncDriver.fetch_many: semaphore + gather              *)
(*   SpecPool      PooledPlaywrightDriver._fetch_many_async                *)
(*   SpecGraph     Graph.add_node / add_edge / remove_node                 *)
(*   SpecSched     CrawlScheduler.add_node / get_next                      *)
(*   SpecCrawl     coordinator loop over scheduler, scanner, link          *)
(*                 processor and graph                                     *)
(***************************************************************************)
EXTENDS Integers, Sequences, FiniteSets, TLC

(***************************************************************************)
(* Bounds of the model.                                                    *)
(***************************************************************************)
\* number of concurrent callers of process_html on one node
MaxCalls == 2
\* compute_hash calls a hash strategy answers
MaxHashCalls == 4
\* number of distinct HTML documents
MaxHtml == 2
\* plugins registered for each stage of the node pipeline
MaxPlugins == 2
\* longest list of post-scan hooks
MaxHooks == 2

\* longest list handed to fetch_many
MaxBatch == 3
\* largest max_concurrent_requests
MaxConcurrent == 2
\* largest browsers / tabs_per_browser of the pooled driver
MaxPool == 2

\* number of distinct URLs of the crawled site; URL 1 is the seed
MaxUrls == 3
\* largest max_pages of a crawl
MaxPages == 3
\* largest max_depth of a crawl
MaxDepth == 1
\* largest batch handed to scan_batch
MaxK == 2
\* most edges a caller of the graph API adds
MaxEdges == 2
\* tasks of the dispatcher that are with the workers at one time
MaxTasks == 2
MaxSitemaps == 3
\* number of URLs that a urlset holds
MaxLeaves == 2

Urls == 1..MaxUrls
\* node ids: one per Node object ever created
Ids == 1..(MaxUrls + 1)

Slots == 1..MaxBatch
Calls == 1..MaxCalls
Htmls == 1..MaxHtml
Plugins == 1..MaxPlugins

VARIABLES
    \* ---- Node (domain/entities/node.py)
    lifecycle_stage,   \* "URL_STAGE" | "HTML_STAGE"
    metadata,          \* node.metadata: 0 is the empty dict, else the title
    user_data,         \* node.user_data: [text_content, tag], 0 is unset
    content_hash,      \* node.content_hash: 0 is None
    plugin_manager,    \* TRUE iff a plugin manager is attached
    callPc,            \* position of each process_html call
    callHtml,          \* the html argument of each call
    callCtx,           \* the NodePluginContext of each call
    callPlugin,        \* per call: the plugin of the current stage that is next
    callResult,        \* the list each call returned
    callRejected,      \* TRUE iff the call took the early return
    pluginLog,         \* stages run so far, as <<call, stage>>
    hash_strategy,     \* node.hash_strategy: what compute_hash returns, call
                       \* after call; <<>> is None
    hash_calls,        \* compute_hash calls made so far
    hash_determinism_validated,  \* node._hash_determinism_validated is set
    hash_log,          \* the get_content_hash calls so far: error and value
    \* ---- NodeMapper (application/dto/mappers/node_mapper.py)
    mapper_pc,         \* "node" | "dto" | "restored"
    mapper_node,       \* the node handed to to_dto
    mapper_context,    \* context["plugin_manager"] of to_domain, by the
                       \* ON_NODE_CREATED plugin it holds; "None" is none
    node_dto,          \* what to_dto returned
    mapper_restored,   \* what to_domain returned
    \* ---- one AsyncDriver.fetch call (transport/async_http)
    driver,            \* "v3" is driver.py, "v4" is driver_v4.py
    fpc,               \* position of the fetch call
    ctxCancelled,      \* ctx.cancelled of the current attempt
    ctxShouldRetry,    \* ctx.data["should_retry"] of the current attempt
    cancelStage,       \* stage whose hook set ctx.cancelled, "" if none
    hookLog,           \* stages whose hooks ran in the current attempt
    requestSent,       \* TRUE iff session.get was called in this attempt
    attempts,          \* attempts started by this fetch call
    response,          \* what fetch returned, "none" while it runs
    \* ---- fetch_many (async driver and pooled browser driver)
    urls,              \* the input list
    results,           \* the list fetch_many returned
    fmPc,              \* "idle" | "running" | "finally" | "returned" | "raised"
    max_concurrent,    \* config max_concurrent_requests
    permits,           \* value of the asyncio.Semaphore
    taskPc,            \* per input index: position of its task
    taskResult,        \* per input index: what its task produced
    max_browsers,      \* pooled driver: browsers
    max_tabs_per_browser, \* pooled driver: tabs_per_browser
    browsers,          \* pooled driver: state of each launched browser
    pages,             \* pooled driver: per launched browser, its open tabs
    tasks,             \* pooled driver: url index of each tab task
    pendingError,      \* pooled driver: an exception is propagating
    \* ---- Graph
    nodes,             \* graph.nodes: node id -> node, NoNode where absent
    edges,             \* graph.edges, as <<source_node_id, target_node_id>>
    nextId,            \* id the next Node object gets
    lastAdd,           \* the add_node call just made and what it returned
    \* ---- CrawlScheduler
    queue,             \* the heap: [priority, counter, url]
    seen_urls,         \* URLs ever admitted
    counter,           \* insertion counter
    dispensed,         \* per URL: how often get_next returned it
    lastOp,            \* the last scheduler call and what it returned
    url_rules,         \* the URL rules, in configured order
    \* ---- coordinator
    cpc,               \* "idle" | "start" | "loop" | "done"
    pages_crawled,
    scanRaised,        \* TRUE iff a scan_node call raised to the coordinator
    fetched,           \* URLs the scanner handed to the transport
    hook_log,          \* post-scan hook calls of the last loop iteration
    link_log,          \* process_links calls of the last loop iteration
    created_log,       \* per URL, the runs of the ON_NODE_CREATED plugins
    max_pages,         \* config.max_pages
    max_depth,         \* config.max_depth
    batch_size,        \* nodes pulled per batch, 0: one node at a time
    incremental,       \* config incremental flag
    edge_strategy,     \* config.edge_strategy
    edge_rules,        \* config.edge_rules, in configured order
    filtered,          \* URLs the domain filter or the path filter rejects
    explicit_scan_decisions,  \* what plugins put in user_data, per link
    child_priorities,  \* what plugins put in user_data, per link; 0: absent
    post_scan_hooks,   \* config post_scan_hooks, in configured order
    \* ---- the dispatcher of the distributed mode
    dpc,               \* "idle" | "start" | "loop" | "done"
    task_batch_size,   \* URLs per task
    submitted,         \* the tasks submitted so far: the URLs of each
    in_flight,         \* the tasks whose result is still to come
    reported,          \* the results so far: task and discovered_urls
    dead_letter,       \* URLs recorded to the dead-letter queue
    \* ---- the default tree adapter (infrastructure/adapters)
    adapter_tree,      \* BeautifulSoupAdapter._tree of the singleton
    pagePc,            \* per page: position of its process_html call
    pageHtml,          \* per page: the html it is parsed from
    pageTree,          \* per page: the html_tree parser.parse returned
    pageText,          \* per page: what parser.text gave its plugins
    \* ---- AdaptiveThrottler (use_cases/crawling/adaptive_throttler.py)
    initial_delay,     \* constructor arguments, in tenths of a second
    min_delay,
    max_delay,
    current_delay,     \* self.current_delay, in tenths of a second
    recent_errors,     \* deque(maxlen=window_size) of booleans
    recent_response_times, \* deque(maxlen=window_size), in milliseconds
    requests_since_adjustment,
    throttleOp,        \* what the last call did: "record", "adjust", "reset"
    \* ---- SitemapSpider (use_cases/crawling/sitemap_spider.py)
    site,              \* the site: per sitemap its parent and what it holds
    smPc,              \* "idle" | "start" | "running" | "returned" | "raised"
    smTodo,            \* _process_sitemap calls still to make, next first
    smNodes,           \* the graph: per sitemap URL its node, 0 is robots.txt
    include_urls,      \* constructor argument of the spider
    max_urls,          \* constructor argument of the spider, 0 is None
    urls_extracted,    \* self.urls_extracted
    url_nodes,         \* the graph: per sitemap, its URL leaf nodes
    smCancel           \* "no" | "in_flight" | "finished": wait_for has
                       \* cancelled crawl(), and the parser thread that
                       \* was running then is still at work or has ended

nodeVars == <<lifecycle_stage, metadata, user_data, content_hash,
              plugin_manager, callPc, callHtml, callCtx, callPlugin,
              callResult, callRejected, pluginLog>>

hashVars == <<hash_strategy, hash_calls, hash_determinism_validated,
              hash_log>>

mapperVars == <<mapper_pc, mapper_node, mapper_context, node_dto,
                mapper_restored>>

fetchVars == <<driver, fpc, ctxCancelled, ctxShouldRetry, cancelStage,
               hookLog, requestSent, attempts, response>>

batchVars == <<urls, results, fmPc, max_concurrent, permits, taskPc,
               taskResult, max_browsers, max_tabs_per_browser, browsers,
               pages, tasks, pendingError>>

graphVars == <<nodes, edges, nextId>>

schedVars == <<queue, seen_urls, counter, dispensed, lastOp, url_rules>>

configVars == <<max_pages, max_depth, batch_size, incremental, edge_strategy,
                edge_rules, filtered, explicit_scan_decisions,
                child_priorities, post_scan_hooks>>

dispatchVars == <<dpc, task_batch_size, submitted, in_flight, reported,
                  dead_letter>>

adapterVars == <<adapter_tree, pagePc, pageHtml, pageTree, pageText>>

throttleVars == <<initial_delay, min_delay, max_delay, current_delay,
                  recent_errors, recent_response_times,
                  requests_since_adjustment, throttleOp>>

sitemapVars == <<site, smPc, smTodo, smNodes, include_urls, max_urls,
                 urls_extracted, url_nodes, smCancel>>

crawlVars == <<cpc, pages_crawled, scanRaised, fetched, hook_log, link_log,
               created_log, configVars>>

vars == <<nodeVars, fetchVars, batchVars, graphVars, lastAdd, schedVars,
          crawlVars, adapterVars, throttleVars, sitemapVars, dispatchVars,
          hashVars, mapperVars>>

(***************************************************************************)
(* Idle values: what the variables of a machine hold while another         *)
(* machine runs.                                                           *)
(***************************************************************************)
URL_STAGE == "URL_STAGE"
HTML_STAGE == "HTML_STAGE"

EmptyCtx == [metadata |-> 0, text_content |-> 0, tag |-> 0,
             extracted_links |-> <<>>]

NodeIdle ==
    /\ lifecycle_stage = URL_STAGE
    /\ metadata = 0
    /\ user_data = [text_content |-> 0, tag |-> 0]
    /\ content_hash = 0
    /\ plugin_manager = TRUE
    /\ callPc = [c \in Calls |-> "idle"]
    /\ callHtml = [c \in Calls |-> 1]
    /\ callCtx = [c \in Calls |-> EmptyCtx]
    /\ callPlugin = [c \in Calls |-> 1]
    /\ callResult = [c \in Calls |-> <<>>]
    /\ callRejected = [c \in Calls |-> FALSE]
    /\ pluginLog = <<>>

HashIdle ==
    /\ hash_strategy = <<>>
    /\ hash_calls = 0
    /\ hash_determinism_validated = FALSE
    /\ hash_log = <<>>

FetchIdle ==
    /\ driver = "v3"
    /\ fpc = "idle"
    /\ ctxCancelled = FALSE
    /\ ctxShouldRetry = FALSE
    /\ cancelStage = ""
    /\ hookLog = <<>>
    /\ requestSent = FALSE
    /\ attempts = 0
    /\ response = "none"

None == [kind |-> "None", url |-> 0, error |-> FALSE]

BatchIdle ==
    /\ urls = <<>>
    /\ results = <<>>
    /\ fmPc = "idle"
    /\ max_concurrent = 1
    /\ permits = 0
    /\ taskPc = [i \in Slots |-> "none"]
    /\ taskResult = [i \in Slots |-> None]
    /\ max_browsers = 1
    /\ max_tabs_per_browser = 1
    /\ browsers = <<>>
    /\ pages = <<>>
    /\ tasks = <<>>
    /\ pendingError = FALSE

\* Node(url=..., depth=...): the fields of a fresh node
Node(url, depth) ==
    [url |-> url, depth |-> depth, scanned |-> FALSE,
     lifecycle_stage |-> URL_STAGE, should_scan |-> TRUE,
     can_create_edges |-> TRUE, response_status |-> 0, priority |-> 0,
     outcome |-> "none"]

NoNode == Node(0, 0)

NoOp == [op |-> "none", url |-> 0, result |-> FALSE]

\* the call just made was not add_node
NoAdd == [url |-> 0, depth |-> 0, overwrite |-> FALSE, existing |-> 0,
          returned |-> 0]

GraphIdle ==
    /\ nodes = [i \in Ids |-> NoNode]
    /\ edges = {}
    /\ nextId = 1
    /\ lastAdd = NoAdd

SchedIdle ==
    /\ queue = {}
    /\ seen_urls = {}
    /\ counter = 0
    /\ dispensed = [u \in Urls |-> 0]
    /\ lastOp = NoOp
    /\ url_rules = <<>>

CrawlIdle ==
    /\ cpc = "idle"
    /\ pages_crawled = 0
    /\ scanRaised = FALSE
    /\ max_pages = 1
    /\ max_depth = 0
    /\ batch_size = 0
    /\ incremental = FALSE
    /\ fetched = {}
    /\ hook_log = <<>>
    /\ link_log = <<>>
    /\ created_log = [u \in Urls |-> 0]
    /\ edge_strategy = "all"
    /\ edge_rules = <<>>
    /\ filtered = {}
    /\ explicit_scan_decisions = [u \in Urls |-> "null"]
    /\ child_priorities = [u \in Urls |-> 0]
    /\ post_scan_hooks = <<>>

ThrottleIdle ==
    /\ initial_delay = 0
    /\ min_delay = 0
    /\ max_delay = 0
    /\ current_delay = 0
    /\ recent_errors = <<>>
    /\ recent_response_times = <<>>
    /\ requests_since_adjustment = 0
    /\ throttleOp = "none"

Sitemaps == 1..MaxSitemaps

\* no node under a URL
NoSitemapNode == [kind |-> "none", parent |-> 0, depth |-> 0]

SitemapIdle ==
    /\ site = [parent |-> [k \in Sitemaps |-> 0],
               kind |-> [k \in Sitemaps |-> "urlset"],
               again |-> [k \in Sitemaps |-> 0]]
    /\ smPc = "idle"
    /\ smTodo = <<>>
    /\ smNodes = [k \in 0..MaxSitemaps |-> NoSitemapNode]
    /\ include_urls = FALSE
    /\ max_urls = 0
    /\ urls_extracted = 0
    /\ url_nodes = [k \in Sitemaps |-> 0]
    /\ smCancel = "no"

DispatchIdle ==
    /\ dpc = "idle"
    /\ task_batch_size = 1
    /\ submitted = <<>>
    /\ in_flight = {}
    /\ reported = <<>>
    /\ dead_letter = {}

\* no tree: None
NoTree == [title |-> 0, text |-> 0]

AdapterIdle ==
    /\ adapter_tree = NoTree
    /\ pagePc = [c \in Calls |-> "idle"]
    /\ pageHtml = [c \in Calls |-> 1]
    /\ pageTree = [c \in Calls |-> NoTree]
    /\ pageText = [c \in Calls |-> 0]

(***************************************************************************)
(* Node                                                                    *)
(***************************************************************************)
\* what the default plugins extract from a document
TitleOf(html) == 10 + html
TextOf(html) == 20 + html
LinksOf(html) == IF html = 1 THEN <<1, 2>> ELSE <<2>>

\* hashlib.sha256(text).hexdigest(), on the small text domain; 0 is the
\* empty string
Sha256(text) == (((text * 7) + 3) % 31) + 100

InitNode ==
    /\ lifecycle_stage = URL_STAGE
    /\ metadata = 0
    /\ user_data = [text_content |-> 0, tag |-> 0]
    /\ content_hash = 0
    /\ plugin_manager \in BOOLEAN
    /\ callPc = [c \in Calls |-> "idle"]
    /\ callHtml \in [Calls -> Htmls]
    /\ callCtx = [c \in Calls |-> EmptyCtx]
    /\ callPlugin = [c \in Calls |-> 1]
    /\ callResult = [c \in Calls |-> <<>>]
    /\ callRejected = [c \in Calls |-> FALSE]
    /\ pluginLog = <<>>

\* a process_html that leaves the stage where it was when the check passed
StageLeftBehind(stage) == stage

\* process_html, lines 282-287: the lifecycle check and the transition are
\* one step, no await lies between them
StageAfterCheck(stage) == HTML_STAGE

\* process_html up to its first await (the parse in the thread pool)
ProcessHtmlEnter(c) ==
    /\ callPc[c] = "idle"
    /\ IF lifecycle_stage = HTML_STAGE
       THEN /\ callPc' = [callPc EXCEPT ![c] = "returned"]
            /\ callRejected' = [callRejected EXCEPT ![c] = TRUE]
            /\ callResult' = [callResult EXCEPT ![c] = <<>>]
            /\ UNCHANGED lifecycle_stage
       ELSE /\ lifecycle_stage' = StageAfterCheck(lifecycle_stage)
            /\ callPc' = [callPc EXCEPT ![c] = "parse"]
            /\ UNCHANGED <<callRejected, callResult>>
    /\ UNCHANGED <<metadata, user_data, content_hash, plugin_manager,
                   callHtml, callCtx, callPlugin, pluginLog>>

\* _parse_html_async returns; _execute_plugins builds the context from
\* copies of the node's metadata and user_data
ParseDone(c) ==
    /\ callPc[c] = "parse"
    /\ callCtx' = [callCtx EXCEPT ![c] =
                     [metadata |-> metadata,
                      text_content |-> user_data.text_content,
                      tag |-> user_data.tag,
                      extracted_links |-> <<>>]]
    /\ callPc' = [callPc EXCEPT ![c] =
                     IF plugin_manager THEN "before_scan" ELSE "finish"]
    /\ UNCHANGED <<lifecycle_stage, metadata, user_data, content_hash,
                   plugin_manager, callHtml, callPlugin, callResult,
                   callRejected, pluginLog>>

\* parser.parse raises: process_html raises with the stage already moved
ParseFails(c) ==
    /\ callPc[c] = "parse"
    /\ callPc' = [callPc EXCEPT ![c] = "raised"]
    /\ UNCHANGED <<lifecycle_stage, metadata, user_data, content_hash,
                   plugin_manager, callHtml, callCtx, callPlugin, callResult,
                   callRejected, pluginLog>>

\* the order in which _execute_plugins goes through its steps, with
\* _update_from_context after the ON_AFTER_SCAN plugins
WriteBackLast(pc) ==
    IF pc = "before_scan" THEN "html_parsed"
    ELSE IF pc = "html_parsed" THEN "after_scan"
    ELSE IF pc = "after_scan" THEN "write_back"
    ELSE "finish"

\* _execute_plugins, lines 389-404: the step that follows each step
NextPc(pc) ==
    IF pc = "before_scan" THEN "html_parsed"
    ELSE IF pc = "html_parsed" THEN "write_back"
    ELSE IF pc = "write_back" THEN "after_scan"
    ELSE "finish"

\* what plugin k of a stage writes to the context: the ON_HTML_PARSED
\* plugins extract metadata and text (1) and links (2), ON_AFTER_SCAN plugin
\* k writes user_data["tag"] = k
PluginEffect(stage, k, ctx, html) ==
    IF stage = "ON_HTML_PARSED" /\ k = 1
    THEN [ctx EXCEPT !.metadata = TitleOf(html), !.text_content = TextOf(html)]
    ELSE IF stage = "ON_HTML_PARSED" /\ k = 2
    THEN [ctx EXCEPT !.extracted_links = LinksOf(html)]
    ELSE IF stage = "ON_AFTER_SCAN"
    THEN [ctx EXCEPT !.tag = k]
    ELSE ctx

\* a manager that hands on what the failing plugin had written
KeepPartialWrites(ctx, attempted) == attempted

\* the context the manager hands to the next plugin after a plugin raised
AfterPluginRaised(ctx, attempted) == ctx

\* plugin_manager.execute(stage, context), one plugin of the stage: the
\* plugins run in registration order, a plugin that raises is skipped
PluginStep(c, pc, stage) ==
    /\ callPc[c] = pc
    /\ LET k == callPlugin[c]
           attempted == PluginEffect(stage, k, callCtx[c], callHtml[c])
       IN \E raises \in BOOLEAN :
           /\ callCtx' = [callCtx EXCEPT ![c] =
                            IF raises
                            THEN AfterPluginRaised(callCtx[c], attempted)
                            ELSE attempted]
           /\ pluginLog' = Append(pluginLog,
                               <<c, stage, k,
                                 IF raises THEN "raised" ELSE "ok">>)
           /\ IF k = MaxPlugins
              THEN /\ callPc' = [callPc EXCEPT ![c] = NextPc(pc)]
                   /\ callPlugin' = [callPlugin EXCEPT ![c] = 1]
              ELSE /\ callPlugin' = [callPlugin EXCEPT ![c] = k + 1]
                   /\ UNCHANGED callPc
    /\ UNCHANGED <<lifecycle_stage, metadata, user_data, content_hash,
                   plugin_manager, callHtml, callResult, callRejected>>

\* plugin_manager.execute(ON_BEFORE_SCAN, context)
OnBeforeScan(c) == PluginStep(c, "before_scan", "ON_BEFORE_SCAN")

\* plugin_manager.execute(ON_HTML_PARSED, context)
OnHtmlParsed(c) == PluginStep(c, "html_parsed", "ON_HTML_PARSED")

\* self._update_from_context(context), between ON_HTML_PARSED and
\* ON_AFTER_SCAN
UpdateFromContext(c) ==
    /\ callPc[c] = "write_back"
    /\ metadata' = callCtx[c].metadata
    /\ user_data' = [text_content |-> callCtx[c].text_content,
                     tag |-> callCtx[c].tag]
    /\ pluginLog' = Append(pluginLog, <<c, "_update_from_context", 0, "ok">>)
    /\ callPc' = [callPc EXCEPT ![c] = NextPc("write_back")]
    /\ UNCHANGED <<lifecycle_stage, content_hash, plugin_manager, callHtml,
                   callCtx, callPlugin, callResult, callRejected>>

\* plugin_manager.execute(ON_AFTER_SCAN, context)
OnAfterScan(c) == PluginStep(c, "after_scan", "ON_AFTER_SCAN")

\* process_html, lines 299-311: user_data.update, _compute_content_hash
\* (default strategy), _cleanup_memory, return context.extracted_links
ProcessHtmlFinish(c) ==
    /\ callPc[c] = "finish"
    /\ LET ud == [text_content |-> callCtx[c].text_content,
                  tag |-> callCtx[c].tag]
       IN /\ user_data' = ud
          /\ content_hash' = Sha256(ud.text_content)
    /\ callResult' = [callResult EXCEPT ![c] = callCtx[c].extracted_links]
    /\ callPc' = [callPc EXCEPT ![c] = "returned"]
    /\ UNCHANGED <<lifecycle_stage, metadata, plugin_manager, callHtml,
                   callCtx, callPlugin, callRejected, pluginLog>>

NextNode ==
    \E c \in Calls :
        \/ ProcessHtmlEnter(c)
        \/ ParseDone(c)
        \/ ParseFails(c)
        \/ OnBeforeScan(c)
        \/ OnHtmlParsed(c)
        \/ UpdateFromContext(c)
        \/ OnAfterScan(c)
        \/ ProcessHtmlFinish(c)

(***************************************************************************)
(* Node.get_content_hash with a custom hash strategy                       *)
(***************************************************************************)
\* what a strategy may return: 0 stands for a string that is no SHA256 hex
\* digest, the others for digests
HashValues == {0, 101, 102}

\* re.match(SHA256_HASH_PATTERN, hash_value)
IsSha256(hash_value) == hash_value # 0

\* a strategy as the values of its successive compute_hash(node) calls on
\* the node, whose data stay as they are
HashStrategies == {<<>>} \cup [1..MaxHashCalls -> HashValues]

InitHash ==
    /\ lifecycle_stage \in {URL_STAGE, HTML_STAGE}
    /\ metadata = 0
    /\ user_data = [text_content |-> 0, tag |-> 0]
    /\ content_hash = 0
    /\ plugin_manager = TRUE
    /\ callPc = [c \in Calls |-> "idle"]
    /\ callHtml = [c \in Calls |-> 1]
    /\ callCtx = [c \in Calls |-> EmptyCtx]
    /\ callPlugin = [c \in Calls |-> 1]
    /\ callResult = [c \in Calls |-> <<>>]
    /\ callRejected = [c \in Calls |-> FALSE]
    /\ pluginLog = <<>>
    /\ hash_strategy \in HashStrategies
    /\ hash_calls = 0
    /\ hash_determinism_validated = FALSE
    /\ hash_log = <<>>

\* a determinism check that lets every pair of hashes pass
AnyHashPair(first_hash, second_hash) == TRUE

\* _validate_hash_strategy_deterministic: first_hash != second_hash raises
SameHash(first_hash, second_hash) == first_hash = second_hash

\* get_content_hash(): the error it raises or the value it returns, with
\* the compute_hash calls made and the validation flag after the call
GetContentHashResult ==
    LET same == [error |-> "none", value |-> 0, calls |-> hash_calls,
                 validated |-> hash_determinism_validated]
        hash_value == hash_strategy[hash_calls + 1]
        second_hash == hash_strategy[hash_calls + 2]
    IN IF lifecycle_stage # HTML_STAGE
       THEN [same EXCEPT !.error = "NodeLifecycleError"]
       ELSE IF hash_strategy = <<>>
       THEN [same EXCEPT !.value = Sha256(user_data.text_content)]
       ELSE IF ~IsSha256(hash_value)
       THEN [same EXCEPT !.error = "ValueError", !.calls = @ + 1]
       ELSE IF hash_determinism_validated
       THEN [same EXCEPT !.value = hash_value, !.calls = @ + 1]
       ELSE IF ~SameHash(hash_value, second_hash)
       THEN [same EXCEPT !.error = "ValueError", !.calls = @ + 2]
       ELSE [same EXCEPT !.value = hash_value, !.calls = @ + 2,
                         !.validated = TRUE]

HashCallAllowed ==
    /\ Len(hash_log) < MaxHashCalls
    /\ hash_calls + 2 <= MaxHashCalls

\* a caller asks the node for its hash
GetContentHash ==
    /\ HashCallAllowed
    /\ \E r \in {GetContentHashResult} :
          /\ hash_calls' = r.calls
          /\ hash_determinism_validated' = r.validated
          /\ hash_log' = Append(hash_log, [error |-> r.error,
                                           value |-> r.value])
    /\ UNCHANGED <<nodeVars, hash_strategy>>

\* _compute_content_hash(), as process_html runs it: the hash is stored,
\* or None when get_content_hash raises
ComputeContentHash ==
    /\ HashCallAllowed
    /\ \E r \in {GetContentHashResult} :
          /\ hash_calls' = r.calls
          /\ hash_determinism_validated' = r.validated
          /\ hash_log' = Append(hash_log, [error |-> r.error,
                                           value |-> r.value])
          /\ content_hash' = IF r.error = "none" THEN r.value ELSE 0
    /\ UNCHANGED <<lifecycle_stage, metadata, user_data, plugin_manager,
                   callPc, callHtml, callCtx, callPlugin, callResult,
                   callRejected, pluginLog, hash_strategy>>

NextHash ==
    \/ GetContentHash
    \/ ComputeContentHash

(***************************************************************************)
(* NodeMapper: Node -> NodeDTO -> Node                                     *)
(***************************************************************************)
\* the serialized fields of a node that was never scanned, of one that
\* was scanned with a page, and of one whose fetch failed
ScanStates ==
    {[scanned |-> FALSE, response_status |-> 0, metadata |-> 0,
      text_content |-> 0, content_hash |-> 0, lifecycle_stage |-> URL_STAGE],
     [scanned |-> TRUE, response_status |-> 200, metadata |-> 11,
      text_content |-> 21, content_hash |-> Sha256(21),
      lifecycle_stage |-> HTML_STAGE],
     [scanned |-> TRUE, response_status |-> 0, metadata |-> 0,
      text_content |-> 0, content_hash |-> 0, lifecycle_stage |-> URL_STAGE]}

MapperNodes ==
    {[url |-> 1, depth |-> d, should_scan |-> ss, can_create_edges |-> ce,
      scanned |-> st.scanned, response_status |-> st.response_status,
      metadata |-> st.metadata,
      user_data |-> [text_content |-> st.text_content, tag |-> tag],
      content_hash |-> st.content_hash, priority |-> pr,
      lifecycle_stage |-> st.lifecycle_stage] :
        d \in 0..1, ss \in BOOLEAN, ce \in BOOLEAN, st \in ScanStates,
        tag \in {0, 5}, pr \in {0, 5}}

\* the ON_NODE_CREATED plugin of the manager in the restore context: one
\* that returns the context as it got it, one that sets should_scan to
\* False, one that sets can_create_edges to False, one that puts a tag
\* into user_data
CreatedPlugins == {"keep", "no_scan", "no_edges", "tag"}

\* node.lifecycle_stage.value and NodeLifecycle(value)
StageValue(stage) == IF stage = URL_STAGE THEN "url_stage" ELSE "html_stage"
StageOfValue(value) == IF value = "url_stage" THEN URL_STAGE ELSE HTML_STAGE

\* NodeMapper.to_dto(node)
ToDto(node) == [node EXCEPT !.lifecycle_stage = StageValue(@)]

\* a node whose construction runs no plugins
NodeCreatedHookOff(node, manager) == node

\* _trigger_node_created_hook on a node with this plugin manager: the
\* plugins get a context with should_scan and can_create_edges of the
\* node and an empty user_data, and what they return is written back
NodeCreatedHook(node, manager) ==
    CASE manager = "None" -> node
      [] manager = "keep" -> node
      [] manager = "no_scan" -> [node EXCEPT !.should_scan = FALSE]
      [] manager = "no_edges" -> [node EXCEPT !.can_create_edges = FALSE]
      [] manager = "tag" -> [node EXCEPT !.user_data.tag = 9]

\* NodeMapper.to_domain(node_dto, context): node_class(...) with the
\* fields of the DTO and the dependencies of the context, then
\* model_post_init
ToDomain(dto, context) ==
    NodeCreatedHook([dto EXCEPT !.lifecycle_stage = StageOfValue(@)],
                    context)

NoMapperNode ==
    [url |-> 0, depth |-> 0, should_scan |-> TRUE, can_create_edges |-> TRUE,
     scanned |-> FALSE, response_status |-> 0, metadata |-> 0,
     user_data |-> [text_content |-> 0, tag |-> 0], content_hash |-> 0,
     priority |-> 0, lifecycle_stage |-> URL_STAGE]

MapperIdle ==
    /\ mapper_pc = "idle"
    /\ mapper_node = NoMapperNode
    /\ mapper_context = "None"
    /\ node_dto = NoMapperNode
    /\ mapper_restored = NoMapperNode

InitMapper ==
    /\ mapper_pc = "node"
    /\ mapper_node \in MapperNodes
    /\ mapper_context \in {"None"} \cup CreatedPlugins
    /\ node_dto = NoMapperNode
    /\ mapper_restored = NoMapperNode

MapperToDto ==
    /\ mapper_pc = "node"
    /\ node_dto' = ToDto(mapper_node)
    /\ mapper_pc' = "dto"
    /\ UNCHANGED <<mapper_node, mapper_context, mapper_restored>>

MapperToDomain ==
    /\ mapper_pc = "dto"
    /\ mapper_restored' = ToDomain(node_dto, mapper_context)
    /\ mapper_pc' = "restored"
    /\ UNCHANGED <<mapper_node, mapper_context, node_dto>>

NextMapper ==
    \/ MapperToDto
    \/ MapperToDomain

(***************************************************************************)
(* AsyncDriver.fetch: the per-request lifecycle                            *)
(***************************************************************************)
\* self._max_retries = self.config.get("max_retries", 2)
max_retries == 2
\* attempts one fetch call may start in the model
MaxAttempts == 4

SESSION_REUSED == "SESSION_REUSED"
PREPARING_REQUEST == "PREPARING_REQUEST"
SENDING_REQUEST == "SENDING_REQUEST"
RESPONSE_RECEIVED == "RESPONSE_RECEIVED"
PROCESSING_RESPONSE == "PROCESSING_RESPONSE"
REQUEST_COMPLETED == "REQUEST_COMPLETED"
REQUEST_FAILED == "REQUEST_FAILED"

\* position of a stage in the lifecycle of one attempt
StageRank(stage) ==
    CASE stage = SESSION_REUSED -> 1
      [] stage = PREPARING_REQUEST -> 2
      [] stage = SENDING_REQUEST -> 3
      [] stage = RESPONSE_RECEIVED -> 4
      [] stage = PROCESSING_RESPONSE -> 5
      [] stage = REQUEST_COMPLETED -> 6
      [] stage = REQUEST_FAILED -> 6
      [] OTHER -> 0

\* fetch(url) is called: the session is obtained and a fresh context built.
\* In driver.py the session just returned by _get_session is open, so the
\* session stage always takes the SESSION_REUSED branch.
FirstStage(d) == IF d = "v3" THEN "session" ELSE "preparing"

InitFetch ==
    /\ driver \in {"v3", "v4"}
    /\ fpc = FirstStage(driver)
    /\ ctxCancelled = FALSE
    /\ ctxShouldRetry = FALSE
    /\ cancelStage = ""
    /\ hookLog = <<>>
    /\ requestSent = FALSE
    /\ attempts = 1
    /\ response = "none"

\* plugin_manager.execute_hook_async(stage, ctx): the plugins of the stage
\* run and one of them may set ctx.cancelled
RunHook(stage, cancel) ==
    /\ hookLog' = Append(hookLog, stage)
    /\ ctxCancelled' = (ctxCancelled \/ cancel)
    /\ cancelStage' = IF cancel /\ ~ctxCancelled THEN stage ELSE cancelStage

\* the `if ctx.cancelled: return self._create_cancelled_response(ctx)` that
\* follows the hooks of the stages before the request is sent
CancelCheck(cancelled, next) ==
    /\ fpc' = IF cancelled THEN "done" ELSE next
    /\ response' = IF cancelled THEN "cancelled" ELSE response

\* driver.py lines 148-164
SessionStage ==
    /\ fpc = "session"
    /\ \E cancel \in BOOLEAN :
          /\ RunHook(SESSION_REUSED, cancel)
          /\ CancelCheck(ctxCancelled \/ cancel, "preparing")
    /\ UNCHANGED <<driver, ctxShouldRetry, requestSent, attempts>>

\* driver.py lines 166-172, driver_v4.py lines 151-155
PreparingStage ==
    /\ fpc = "preparing"
    /\ \E cancel \in BOOLEAN :
          /\ RunHook(PREPARING_REQUEST, cancel)
          /\ CancelCheck(ctxCancelled \/ cancel, "sending")
    /\ UNCHANGED <<driver, ctxShouldRetry, requestSent, attempts>>

\* driver.py lines 174-180, driver_v4.py lines 157-159
SendingStage ==
    /\ fpc = "sending"
    /\ \E cancel \in BOOLEAN :
          /\ RunHook(SENDING_REQUEST, cancel)
          /\ CancelCheck(ctxCancelled \/ cancel, "request")
    /\ UNCHANGED <<driver, ctxShouldRetry, requestSent, attempts>>

\* session.get(...) answers: the response fields are copied to the context
\* and the RESPONSE_RECEIVED hooks run (no cancellation check follows)
ResponseReceived ==
    /\ fpc = "request"
    /\ requestSent' = TRUE
    /\ \E cancel \in BOOLEAN : RunHook(RESPONSE_RECEIVED, cancel)
    /\ fpc' = "read"
    /\ UNCHANGED <<driver, ctxShouldRetry, attempts, response>>

\* a driver whose except branch runs no hooks
RequestRaisesUnhooked ==
    /\ fpc = "request"
    /\ requestSent' = TRUE
    /\ fpc' = "after_failed"
    /\ UNCHANGED <<driver, ctxCancelled, ctxShouldRetry, cancelStage,
                   hookLog, attempts, response>>

\* session.get(...) raises (connection error, timeout)
RequestRaises ==
    /\ fpc = "request"
    /\ requestSent' = TRUE
    /\ fpc' = "failed"
    /\ UNCHANGED <<driver, ctxCancelled, ctxShouldRetry, cancelStage,
                   hookLog, attempts, response>>

\* response.text() returns, then the PROCESSING_RESPONSE hooks run
ProcessingResponse ==
    /\ fpc = "read"
    /\ \E cancel \in BOOLEAN : RunHook(PROCESSING_RESPONSE, cancel)
    /\ fpc' = "completed"
    /\ UNCHANGED <<driver, ctxShouldRetry, requestSent, attempts, response>>

\* response.text() raises something other than UnicodeDecodeError
ReadRaises ==
    /\ fpc = "read"
    /\ fpc' = "failed"
    /\ UNCHANGED <<driver, ctxCancelled, ctxShouldRetry, cancelStage,
                   hookLog, requestSent, attempts, response>>

\* REQUEST_COMPLETED hooks, then the FetchResponse is returned
RequestCompleted ==
    /\ fpc = "completed"
    /\ \E cancel \in BOOLEAN : RunHook(REQUEST_COMPLETED, cancel)
    /\ fpc' = "done"
    /\ response' = "ok"
    /\ UNCHANGED <<driver, ctxShouldRetry, requestSent, attempts>>

\* the except branch: ctx.error is set and the REQUEST_FAILED hooks run; a
\* plugin may ask for a retry
RequestFailed ==
    /\ fpc = "failed"
    /\ \E cancel \in BOOLEAN : RunHook(REQUEST_FAILED, cancel)
    /\ \E retry \in BOOLEAN : ctxShouldRetry' = retry
    /\ fpc' = "after_failed"
    /\ UNCHANGED <<driver, requestSent, attempts, response>>

\* RetryMixin._with_retry_async(..., max_retries=...): attempt n is
\* repeated while retries are left
WithRetryAllows(n) == n <= max_retries

\* whether a failed attempt number n is followed by another one.
\* driver.py lines 246-252: the retry is a recursive self.fetch(url) whenever
\* the plugin asked for it; no count is kept.
\* driver_v4.py lines 121-127 and 205-208: the exception is re-raised to
\* _with_retry_async whatever the plugin asked for.
RetryAllowed(d, n, retry) ==
    IF d = "v3" THEN retry ELSE WithRetryAllows(n)

\* after the REQUEST_FAILED hooks: sleep and start over with a fresh
\* context, or give up with an error response
RetryOrGiveUp ==
    /\ fpc = "after_failed"
    /\ IF RetryAllowed(driver, attempts, ctxShouldRetry)
       THEN /\ attempts < MaxAttempts
            /\ attempts' = attempts + 1
            /\ fpc' = FirstStage(driver)
            /\ ctxCancelled' = FALSE
            /\ ctxShouldRetry' = FALSE
            /\ cancelStage' = ""
            /\ hookLog' = <<>>
            /\ requestSent' = FALSE
            /\ UNCHANGED response
       ELSE /\ fpc' = "done"
            /\ response' = "error"
            /\ UNCHANGED <<ctxCancelled, ctxShouldRetry, cancelStage,
                           hookLog, requestSent, attempts>>
    /\ UNCHANGED driver

NextFetch ==
    \/ SessionStage
    \/ PreparingStage
    \/ SendingStage
    \/ ResponseReceived
    \/ RequestRaises
    \/ ProcessingResponse
    \/ ReadRaises
    \/ RequestCompleted
    \/ RequestFailed
    \/ RetryOrGiveUp

(***************************************************************************)
(* fetch_many                                                              *)
(***************************************************************************)
\* lists of distinct urls, at most MaxBatch long
UrlLists ==
    UNION {{q \in [1..n -> Slots] : \A i, j \in 1..n : q[i] = q[j] => i = j}
           : n \in 0..MaxBatch}

\* FetchResponse(url=..., error=...)
FetchResponse(url, error) == [kind |-> "FetchResponse", url |-> url,
                              error |-> error]
\* an exception object in the list asyncio.gather returns
RaisedException(url) == [kind |-> "Exception", url |-> url, error |-> TRUE]

InitFetchMany ==
    /\ urls \in UrlLists
    /\ results = <<>>
    /\ fmPc = IF urls = <<>> THEN "returned" ELSE "running"
    /\ max_concurrent \in 1..MaxConcurrent
    /\ permits = max_concurrent
    /\ taskPc = [i \in Slots |-> IF i <= Len(urls) THEN "waiting" ELSE "none"]
    /\ taskResult = [i \in Slots |-> None]
    /\ max_browsers = 1
    /\ max_tabs_per_browser = 1
    /\ browsers = <<>>
    /\ pages = <<>>
    /\ tasks = <<>>
    /\ pendingError = FALSE

poolOnly == <<max_browsers, max_tabs_per_browser, browsers, pages, tasks,
              pendingError>>

\* a semaphore that lets every task in
AlwaysFree(value) == TRUE

\* asyncio.Semaphore: acquire goes through while the value is positive
SemaphoreFree(value) == value > 0

\* `async with semaphore:` entered by the task of urls[i]
Acquire(i) ==
    /\ fmPc = "running"
    /\ taskPc[i] = "waiting"
    /\ SemaphoreFree(permits)
    /\ permits' = permits - 1
    /\ taskPc' = [taskPc EXCEPT ![i] = "fetching"]
    /\ UNCHANGED <<urls, results, fmPc, max_concurrent, taskResult, poolOnly>>

\* self.fetch(url) returns a FetchResponse, with or without an error; the
\* semaphore is released on the way out
FetchReturns(i) ==
    /\ taskPc[i] = "fetching"
    /\ \E error \in BOOLEAN :
          taskResult' = [taskResult EXCEPT ![i] = FetchResponse(urls[i], error)]
    /\ permits' = permits + 1
    /\ taskPc' = [taskPc EXCEPT ![i] = "done"]
    /\ UNCHANGED <<urls, results, fmPc, max_concurrent, poolOnly>>

\* self.fetch(url) raises; the semaphore is released on the way out and
\* gather(return_exceptions=True) keeps the exception as the task's result
FetchRaises(i) ==
    /\ taskPc[i] = "fetching"
    /\ taskResult' = [taskResult EXCEPT ![i] = RaisedException(urls[i])]
    /\ permits' = permits + 1
    /\ taskPc' = [taskPc EXCEPT ![i] = "done"]
    /\ UNCHANGED <<urls, results, fmPc, max_concurrent, poolOnly>>

\* driver.py lines 304-318: exceptions become error responses, in input
\* order
ProcessedResults(us, tr) ==
    [i \in 1..Len(us) |->
        IF tr[i].kind = "Exception" THEN FetchResponse(us[i], TRUE) ELSE tr[i]]

\* asyncio.gather returns once every task is done
GatherReturns ==
    /\ fmPc = "running"
    /\ \A i \in 1..Len(urls) : taskPc[i] = "done"
    /\ results' = ProcessedResults(urls, taskResult)
    /\ fmPc' = "returned"
    /\ UNCHANGED <<urls, max_concurrent, permits, taskPc, taskResult, poolOnly>>

NextFetchMany ==
    \/ \E i \in Slots : Acquire(i)
    \/ \E i \in Slots : FetchReturns(i)
    \/ \E i \in Slots : FetchRaises(i)
    \/ GatherReturns

(***************************************************************************)
(* PooledPlaywrightDriver._fetch_many_async                                *)
(***************************************************************************)
Min(a, b) == IF a < b THEN a ELSE b

\* _calculate_distribution(num_urls): tabs per browser
RECURSIVE Distribute(_, _, _, _)
Distribute(remaining, distribution, maxB, maxT) ==
    IF remaining > 0 /\ Len(distribution) < maxB
    THEN Distribute(remaining - Min(remaining, maxT),
                    Append(distribution, Min(remaining, maxT)), maxB, maxT)
    ELSE distribution

CalculateDistribution(num_urls, maxB, maxT) ==
    IF num_urls = 0 THEN <<>> ELSE Distribute(num_urls, <<>>, maxB, maxT)

InitPool ==
    /\ urls \in UrlLists
    /\ results = <<>>
    /\ fmPc = IF urls = <<>> THEN "returned" ELSE "running"
    /\ max_concurrent = 1
    /\ permits = 0
    /\ taskPc = [i \in Slots |-> "none"]
    /\ taskResult = [i \in Slots |-> None]
    /\ max_browsers \in 1..MaxPool
    /\ max_tabs_per_browser \in 1..MaxPool
    /\ browsers = <<>>
    /\ pages = <<>>
    /\ tasks = <<>>
    /\ pendingError = FALSE

PoolDistribution ==
    CalculateDistribution(Len(urls), max_browsers, max_tabs_per_browser)

\* lines 274-320, one round of the loop: a browser is launched, its tabs
\* are opened and one task per tab is created for the next urls
LaunchBrowser ==
    /\ fmPc = "running"
    /\ Len(browsers) < Len(PoolDistribution)
    /\ LET num_tabs == PoolDistribution[Len(browsers) + 1]
           first == Len(tasks)
       IN /\ browsers' = Append(browsers, "open")
          /\ pages' = Append(pages, num_tabs)
          /\ tasks' = tasks \o [t \in 1..num_tabs |-> first + t]
          /\ taskPc' = [i \in Slots |->
                          IF i > first /\ i <= first + num_tabs
                          THEN "fetching" ELSE taskPc[i]]
    /\ UNCHANGED <<urls, results, fmPc, max_concurrent, permits, taskResult,
                   max_browsers, max_tabs_per_browser, pendingError>>

\* browser_launcher.launch raises: control goes to the finally block and
\* the exception leaves _fetch_many_async afterwards
LaunchRaises ==
    /\ fmPc = "running"
    /\ Len(browsers) < Len(PoolDistribution)
    /\ pendingError' = TRUE
    /\ fmPc' = "finally"
    /\ UNCHANGED <<urls, results, max_concurrent, permits, taskPc, taskResult,
                   max_browsers, max_tabs_per_browser, browsers, pages, tasks>>

\* lines 275-312: the browser is launched and appended, then new_context,
\* a CONTEXT_CREATED or PAGE_CREATED hook, new_page or page.route raises
\* after some of its tabs were opened; no tab task has been started
SetupRaises ==
    /\ fmPc = "running"
    /\ Len(browsers) < Len(PoolDistribution)
    /\ \E opened \in 0..(PoolDistribution[Len(browsers) + 1] - 1) :
          pages' = Append(pages, opened)
    /\ browsers' = Append(browsers, "open")
    /\ pendingError' = TRUE
    /\ fmPc' = "finally"
    /\ UNCHANGED <<urls, results, max_concurrent, permits, taskPc, taskResult,
                   max_browsers, max_tabs_per_browser, tasks>>

\* _fetch_with_page returns: every exception inside it has been turned into
\* an error response
TabFetchReturns(i) ==
    /\ fmPc = "running"
    /\ Len(browsers) = Len(PoolDistribution)
    /\ taskPc[i] = "fetching"
    /\ \E error \in BOOLEAN :
          taskResult' = [taskResult EXCEPT ![i] = FetchResponse(urls[i], error)]
    /\ taskPc' = [taskPc EXCEPT ![i] = "done"]
    /\ UNCHANGED <<urls, results, fmPc, max_concurrent, permits, poolOnly>>

\* lines 328-340: responses = [None] * len(urls), filled from the tasks
PoolResponses(us, ts, tr) ==
    [i \in 1..Len(us) |->
        IF \E t \in 1..Len(ts) : ts[t] = i
        THEN IF tr[i].kind = "Exception"
             THEN FetchResponse(us[i], TRUE) ELSE tr[i]
        ELSE None]

\* asyncio.gather over the tab tasks returns; `return responses` runs the
\* finally block first
PoolGatherReturns ==
    /\ fmPc = "running"
    /\ Len(browsers) = Len(PoolDistribution)
    /\ \A t \in 1..Len(tasks) : taskPc[tasks[t]] = "done"
    /\ results' = PoolResponses(urls, tasks, taskResult)
    /\ fmPc' = "finally"
    /\ UNCHANGED <<urls, max_concurrent, permits, taskPc, taskResult, poolOnly>>

\* a finally block that closes the pages and leaves the browsers
PoolFinallyLeavesBrowsers ==
    /\ fmPc = "finally"
    /\ pages' = [b \in 1..Len(pages) |-> 0]
    /\ fmPc' = IF pendingError THEN "raised" ELSE "returned"
    /\ results' = IF pendingError THEN <<>> ELSE results
    /\ UNCHANGED <<urls, max_concurrent, permits, taskPc, taskResult,
                   max_browsers, max_tabs_per_browser, tasks, pendingError,
                   browsers>>

\* lines 347-375: every page, context and browser is closed
PoolFinally ==
    /\ fmPc = "finally"
    /\ pages' = [b \in 1..Len(pages) |-> 0]
    /\ browsers' = [b \in 1..Len(browsers) |-> "closed"]
    /\ fmPc' = IF pendingError THEN "raised" ELSE "returned"
    /\ results' = IF pendingError THEN <<>> ELSE results
    /\ UNCHANGED <<urls, max_concurrent, permits, taskPc, taskResult,
                   max_browsers, max_tabs_per_browser, tasks, pendingError>>

NextPool ==
    \/ LaunchBrowser
    \/ LaunchRaises
    \/ SetupRaises
    \/ \E i \in Slots : TabFetchReturns(i)
    \/ PoolGatherReturns
    \/ PoolFinally

(***************************************************************************)
(* Graph                                                                   *)
(***************************************************************************)
Present(ns) == {i \in Ids : ns[i].url # 0}

\* graph.get_node_by_url(url): the id of the node, 0 for None
GetNodeByUrl(ns, url) ==
    IF \E i \in Present(ns) : ns[i].url = url
    THEN CHOOSE i \in Present(ns) : ns[i].url = url
    ELSE 0

\* edges that remain when node id leaves the graph
WithoutEdgesOf(es, id) == {e \in es : e[1] # id /\ e[2] # id}

InitGraph == GraphIdle

\* an add_node that stores every node it is given next to the ones it has
GraphAddNodeAgain(url, depth, overwrite) ==
    /\ nextId \in Ids
    /\ nodes' = [nodes EXCEPT ![nextId] = Node(url, depth)]
    /\ nextId' = nextId + 1
    /\ edges' = edges
    /\ lastAdd' = [url |-> url, depth |-> depth, overwrite |-> overwrite,
                   existing |-> GetNodeByUrl(nodes, url),
                   returned |-> nextId]

\* graph.add_node(node, overwrite): the node already stored under the URL
\* is returned unless overwrite is set; a replacing node is a new Node
\* object with its own id.  What becomes of the edges of the replaced node
\* is not fixed by the tests: both outcomes are allowed.
GraphAddNode(url, depth, overwrite) ==
    LET existing == GetNodeByUrl(nodes, url) IN
    /\ nextId \in Ids
    /\ IF existing # 0 /\ ~overwrite
       THEN /\ UNCHANGED <<nodes, edges, nextId>>
            /\ lastAdd' = [url |-> url, depth |-> depth,
                           overwrite |-> overwrite, existing |-> existing,
                           returned |-> existing]
       ELSE /\ nodes' = [i \in Ids |->
                           IF i = nextId THEN Node(url, depth)
                           ELSE IF i = existing THEN NoNode
                           ELSE nodes[i]]
            /\ nextId' = nextId + 1
            /\ \/ edges' = edges
               \/ existing # 0 /\ edges' = WithoutEdgesOf(edges, existing)
            /\ lastAdd' = [url |-> url, depth |-> depth,
                           overwrite |-> overwrite, existing |-> existing,
                           returned |-> nextId]

\* graph.add_edge(edge): the edge is appended and returned; the ids it
\* names are not looked up (test_add_single_edge adds an edge between two
\* ids to an empty graph and finds it stored)
GraphAddEdge(source_node_id, target_node_id) ==
    /\ Cardinality(edges) < MaxEdges
    /\ edges' = edges \cup {<<source_node_id, target_node_id>>}
    /\ lastAdd' = NoAdd
    /\ UNCHANGED <<nodes, nextId>>

\* graph.remove_node(node_id): the node and every incident edge go; an
\* unknown id changes nothing
GraphRemoveNode(id) ==
    /\ IF id \in Present(nodes)
       THEN /\ nodes' = [nodes EXCEPT ![id] = NoNode]
            /\ edges' = WithoutEdgesOf(edges, id)
       ELSE UNCHANGED <<nodes, edges>>
    /\ lastAdd' = NoAdd
    /\ UNCHANGED nextId

NextGraph ==
    \/ \E u \in Urls, d \in 0..MaxDepth, o \in BOOLEAN : GraphAddNode(u, d, o)
    \/ \E s \in Ids, t \in Ids : GraphAddEdge(s, t)
    \/ \E i \in Ids : GraphRemoveNode(i)

\* a caller that fills a graph with the first and the last URL: the nodes
\* are added at the least and the greatest depth, with and without
\* overwrite, and the first is linked to the last
NextAddNode ==
    \/ \E u \in {1, MaxUrls}, d \in {0, MaxDepth}, o \in BOOLEAN :
          GraphAddNode(u, d, o)
    \/ /\ GetNodeByUrl(nodes, 1) # 0
       /\ GetNodeByUrl(nodes, MaxUrls) # 0
       /\ GraphAddEdge(GetNodeByUrl(nodes, 1), GetNodeByUrl(nodes, MaxUrls))

(***************************************************************************)
(* CrawlScheduler                                                          *)
(***************************************************************************)
DEFAULT_URL_PRIORITY == 5

\* priorities a caller gives a node; 0 is "not set"
Priorities == {0, 3, 8}

\* the values of the tri-state fields of a rule
TriState == {"null", "true", "false"}

\* URLRule(pattern, priority, should_scan, should_follow_links,
\* create_edge); the pattern is given as the set of URLs it matches
URLRule(pattern, priority, should_scan, create_edge) ==
    [pattern |-> pattern, priority |-> priority, should_scan |-> should_scan,
     should_follow_links |-> "null", create_edge |-> create_edge]

\* what _match_rule returns when no rule matches
NoRule == URLRule({}, DEFAULT_URL_PRIORITY, "null", "null")

\* a rule that keeps URL 2 from being scanned
Forbid(create_edge) == URLRule({2}, DEFAULT_URL_PRIORITY, "false", create_edge)

\* a rule that raises the priority of every URL but the seed
High == URLRule(Urls \ {1}, 8, "null", "null")

\* a rule that links to URL 2 whatever the edge strategy says
Linked == URLRule({2}, DEFAULT_URL_PRIORITY, "null", "true")

\* a rule that lets URL 2 be scanned but keeps it from creating edges
Leaf ==
    [URLRule({2}, DEFAULT_URL_PRIORITY, "null", "null")
        EXCEPT !.should_follow_links = "false"]

\* the rule lists a scheduler or link processor is configured with
RuleLists ==
    {<<>>, <<Forbid("null")>>, <<Forbid("true")>>, <<High, Forbid("null")>>,
     <<Forbid("true"), High>>, <<Linked>>, <<Leaf>>}

\* a matcher that lets the last matching rule win
RECURSIVE LastMatch(_, _, _)
LastMatch(rules, url, i) ==
    IF i > Len(rules) THEN NoRule
    ELSE LET later == LastMatch(rules, url, i + 1)
         IN IF later # NoRule THEN later
            ELSE IF url \in rules[i].pattern THEN rules[i] ELSE NoRule

\* the first rule whose pattern matches the URL wins
RECURSIVE FirstMatch(_, _, _)
FirstMatch(rules, url, i) ==
    IF i > Len(rules) THEN NoRule
    ELSE IF url \in rules[i].pattern THEN rules[i]
    ELSE FirstMatch(rules, url, i + 1)

\* scheduler._match_rule(url)
MatchRule(url) == FirstMatch(url_rules, url, 1)

\* a rule that leaves the node as it is
ApplyNothing(rule, n) == n

\* URLRule.apply_to_node(node)
ApplyToNode(rule, n) ==
    [n EXCEPT
       !.should_scan = IF rule.should_scan # "null"
                       THEN rule.should_scan = "true" ELSE @,
       !.can_create_edges = IF rule.should_follow_links # "null"
                            THEN rule.should_follow_links = "true" ELSE @]

\* effective priority on add_node: node.priority if set, else the matched
\* rule's priority, else the default
EffectivePriority(url, priority) ==
    IF priority # 0 THEN priority
    ELSE IF MatchRule(url) # NoRule THEN MatchRule(url).priority
    ELSE DEFAULT_URL_PRIORITY

\* add_node turns the node down: the rules are matched only when
\* node.priority is not set
Rejects(url, priority) ==
    priority = 0 /\ MatchRule(url).should_scan = "false"

\* a scheduler that looks for the URL among the waiting entries only
InQueue(q, seen, url) == \E e \in q : e.url = url

\* scheduler.has_url(url)
HasUrl(q, seen, url) == url \in seen

\* a queue that hands out the entries in the order they were added
Oldest(q) == CHOOSE e \in q : \A f \in q : e.counter <= f.counter

\* the entry heappop returns: highest priority, then lowest counter
Best(q) ==
    CHOOSE e \in q : \A f \in q :
        \/ e.priority > f.priority
        \/ e.priority = f.priority /\ e.counter <= f.counter

InitSched ==
    /\ queue = {}
    /\ seen_urls = {}
    /\ counter = 0
    /\ dispensed = [u \in Urls |-> 0]
    /\ lastOp = NoOp
    /\ url_rules \in RuleLists

\* scheduler.add_node(node) -> bool
SchedAddNode(url, priority) ==
    /\ counter < 2 * MaxUrls
    /\ IF HasUrl(queue, seen_urls, url) \/ Rejects(url, priority)
       THEN /\ lastOp' = [op |-> "add_node", url |-> url, result |-> FALSE]
            /\ UNCHANGED <<queue, seen_urls, counter>>
       ELSE /\ queue' = queue \cup
                  {[priority |-> EffectivePriority(url, priority),
                    counter |-> counter, url |-> url]}
            /\ seen_urls' = seen_urls \cup {url}
            /\ counter' = counter + 1
            /\ lastOp' = [op |-> "add_node", url |-> url, result |-> TRUE]
    /\ UNCHANGED <<dispensed, url_rules>>

\* scheduler.get_next() -> Node | None
SchedGetNext ==
    /\ IF queue = {}
       THEN /\ lastOp' = [op |-> "get_next", url |-> 0, result |-> FALSE]
            /\ UNCHANGED <<queue, dispensed>>
       ELSE /\ queue' = queue \ {Best(queue)}
            /\ dispensed' = [dispensed EXCEPT ![Best(queue).url] = @ + 1]
            /\ lastOp' = [op |-> "get_next", url |-> Best(queue).url,
                          result |-> TRUE]
    /\ UNCHANGED <<seen_urls, counter, url_rules>>

NextSched ==
    \/ \E u \in Urls, p \in Priorities : SchedAddNode(u, p)
    \/ SchedGetNext

(***************************************************************************)
(* NodeScanner                                                             *)
(***************************************************************************)
\* the links of a page, in document order (ascending here)
RECURSIVE SortedSeq(_)
SortedSeq(S) ==
    IF S = {} THEN <<>>
    ELSE LET m == CHOOSE x \in S : \A y \in S : x <= y
         IN <<m>> \o SortedSeq(S \ {m})

\* the links of a page: none, one link, every URL but the seed, every URL
LinkLists ==
    {SortedSeq(S) : S \in {{}, Urls \ {1}, Urls} \cup {{u} : u \in Urls}}

\* what driver.fetch and the parse of its HTML can come to:
\*   error        a FetchResponse with error set (or no response)
\*   empty        a response without html
\*   html         a response with html that parses to the links
\*   fetch_raised driver.fetch raises
\*   parse_raised node.process_html raises
ScanOutcomes ==
    {[kind |-> k, links |-> <<>>] :
        k \in {"error", "empty", "fetch_raised", "parse_raised"}}
    \cup {[kind |-> "html", links |-> l] : l \in LinkLists}

\* result.status_code: an error response carries none (0)
StatusOf(kind) ==
    IF kind = "error" THEN 0 ELSE IF kind = "empty" THEN 404 ELSE 200

\* node.mark_as_scanned()
MarkAsScanned(n) == [n EXCEPT !.scanned = TRUE]

\* node.process_html(html) seen from the scanner: the stage the node is in
\* afterwards and the links returned
ProcessHtml(n, links) ==
    IF n.lifecycle_stage # URL_STAGE
    THEN [node |-> n, links |-> <<>>]
    ELSE [node |-> [n EXCEPT !.lifecycle_stage = StageAfterCheck(@)],
          links |-> links]

\* a scanner whose error branch returns without node.mark_as_scanned()
HandleResultErrorUnmarked(n, out) ==
    IF out.kind = "error"
    THEN [node |-> n, links |-> <<>>]
    ELSE LET withStatus == [n EXCEPT !.response_status = StatusOf(out.kind)]
         IN IF out.kind = "empty"
            THEN [node |-> MarkAsScanned(withStatus), links |-> <<>>]
            ELSE [node |-> MarkAsScanned(ProcessHtml(withStatus, out.links).node),
                  links |-> ProcessHtml(withStatus, out.links).links]

\* what scan_node and scan_batch do with one fetch result that did not raise
HandleResult(n, out) ==
    IF out.kind = "error"
    THEN [node |-> MarkAsScanned(n), links |-> <<>>]
    ELSE LET withStatus == [n EXCEPT !.response_status = StatusOf(out.kind)]
         IN IF out.kind = "empty"
            THEN [node |-> MarkAsScanned(withStatus), links |-> <<>>]
            ELSE LET parsed == ProcessHtml(withStatus, out.links)
                 IN [node |-> MarkAsScanned(parsed.node),
                     links |-> parsed.links]

\* the state process_html leaves a node in when its parse raises: the stage
\* has moved already
RaisedInParse(n) ==
    [n EXCEPT !.response_status = StatusOf("html"),
              !.lifecycle_stage = IF @ = URL_STAGE THEN StageAfterCheck(@)
                                  ELSE @]

\* a scan_node that takes the links of a page without node.process_html
ScanNodeWithoutProcessHtml(n, out) ==
    [node |-> [MarkAsScanned(n) EXCEPT !.outcome = out.kind,
                                       !.response_status = StatusOf(out.kind)],
     links |-> out.links, raised |-> FALSE]

\* the body of the try block of scan_node: the node and the links it comes
\* to, and whether an exception left it
ScanBody(n, out) ==
    IF out.kind = "fetch_raised"
    THEN [node |-> n, links |-> <<>>, raised |-> TRUE]
    ELSE IF out.kind = "parse_raised"
    THEN [node |-> RaisedInParse(n), links |-> <<>>, raised |-> TRUE]
    ELSE [node |-> HandleResult(n, out).node,
          links |-> HandleResult(n, out).links, raised |-> FALSE]

\* a scan_node whose body is not wrapped in try / except
ScanNodeWithoutTry(n, out) ==
    [node |-> [ScanBody(n, out).node EXCEPT !.outcome = out.kind],
     links |-> ScanBody(n, out).links, raised |-> ScanBody(n, out).raised]

\* scanner.scan_node(node): `except Exception` marks the node and returns
\* ([], None)
ScanNode(n, out) ==
    LET b == ScanBody(n, out)
        r == IF b.raised
             THEN [node |-> MarkAsScanned(b.node), links |-> <<>>,
                   raised |-> FALSE]
             ELSE b
    IN [node |-> [r.node EXCEPT !.outcome = out.kind], links |-> r.links,
        raised |-> r.raised]

\* scanner.scan_batch(nodes) has no try: process_html raising at position i
\* leaves the nodes before i scanned, node i moved to HTML_STAGE and the
\* rest untouched, and no result reaches the caller
RaisesAt(outs) ==
    IF \E i \in 1..Len(outs) : outs[i].kind = "parse_raised"
    THEN CHOOSE i \in 1..Len(outs) :
            /\ outs[i].kind = "parse_raised"
            /\ \A j \in 1..(i - 1) : outs[j].kind # "parse_raised"
    ELSE 0

ScanBatchNode(n, out, i, raisesAt) ==
    IF raisesAt # 0 /\ i > raisesAt THEN n
    ELSE IF raisesAt = i THEN [RaisedInParse(n) EXCEPT !.outcome = out.kind]
    ELSE [HandleResult(n, out).node EXCEPT !.outcome = out.kind]

\* outcomes of the fetches of a batch: fetch_many returns a response for a
\* failure, it does not raise
BatchOutcomes == {o \in ScanOutcomes : o.kind # "fetch_raised"}

(***************************************************************************)
(* LinkProcessor                                                           *)
(***************************************************************************)
\* the crawl state the link processor and the coordinator work on
CrawlState ==
    [nodes |-> nodes, edges |-> edges, nextId |-> nextId, queue |-> queue,
     seen_urls |-> seen_urls, counter |-> counter,
     pages_crawled |-> pages_crawled, hook_log |-> <<>>, link_log |-> <<>>,
     created_log |-> created_log]

\* a node that runs no plugin when it is constructed
WithoutNodeCreatedHook(log, url, manager) == log

\* model_post_init of a node for url: with a plugin manager attached the
\* ON_NODE_CREATED plugins run, once
TriggerNodeCreatedHook(log, url, manager) ==
    IF ~manager THEN log
    ELSE [log EXCEPT ![url] = @ + 1]

\* a link processor that finds every link worth a scan
ScanEveryLink(link) == TRUE

\* step 3: should_scan for a link: the explicit decision of a plugin, else
\* the matching rule's should_scan, else the domain and path filters
ShouldScan(link) ==
    IF explicit_scan_decisions[link] # "null"
    THEN explicit_scan_decisions[link] = "true"
    ELSE IF MatchRule(link).should_scan # "null"
    THEN MatchRule(link).should_scan = "true"
    ELSE link \notin filtered

\* max_depth_diff of an EdgeRule that has none
NoLimit == -1

\* EdgeRule(source_pattern, target_pattern, max_depth_diff, action); a
\* pattern is given as the set of URLs it matches
EdgeRule(source_pattern, target_pattern, max_depth_diff, action) ==
    [source_pattern |-> source_pattern, target_pattern |-> target_pattern,
     max_depth_diff |-> max_depth_diff, action |-> action]

\* an edge rule that always links to URL 2
ForceCreate == EdgeRule(Urls, {2}, NoLimit, "create")

\* an edge rule that drops the links back to the seed
SkipBack == EdgeRule(Urls, {1}, NoLimit, "skip")

\* an edge rule that drops the links between nodes of one depth
SkipSiblings == EdgeRule(Urls \ {1}, Urls \ {1}, 0, "skip")

EdgeRuleLists ==
    {<<>>, <<ForceCreate>>, <<SkipBack>>, <<SkipSiblings, ForceCreate>>}

\* EdgeRule.matches(source_url, target_url, source_depth, target_depth)
EdgeRuleMatches(r, su, tu, sd, td) ==
    /\ su \in r.source_pattern
    /\ tu \in r.target_pattern
    /\ r.max_depth_diff # NoLimit =>
          (IF td >= sd THEN td - sd ELSE sd - td) <= r.max_depth_diff

\* the action of the first edge rule that applies to the pair, as a
\* tri-state: "null" when no rule applies
RECURSIVE EdgeRuleDecision(_, _, _, _, _, _)
EdgeRuleDecision(rules, su, tu, sd, td, i) ==
    IF i > Len(rules) THEN "null"
    ELSE IF EdgeRuleMatches(rules[i], su, tu, sd, td)
    THEN (IF rules[i].action = "create" THEN "true" ELSE "false")
    ELSE EdgeRuleDecision(rules, su, tu, sd, td, i + 1)

\* n of MAX_IN_DEGREE(n)
MAX_IN_DEGREE_LIMIT == 1

EdgeStrategies ==
    {"all", "new_only", "max_in_degree", "same_depth_only", "deeper_only",
     "first_encounter_only"}

InDegree(es, id) == Cardinality({e \in es : e[2] = id})

\* a link processor that takes every strategy for ALL
AllowsAll(es, cid, isNew, pd, cd) == TRUE

\* step 6, the configured strategy alone
StrategyAllows(es, cid, isNew, pd, cd) ==
    CASE edge_strategy = "all" -> TRUE
      [] edge_strategy = "new_only" -> isNew
      [] edge_strategy = "max_in_degree" ->
            InDegree(es, cid) < MAX_IN_DEGREE_LIMIT
      [] edge_strategy = "same_depth_only" -> pd = cd
      [] edge_strategy = "deeper_only" -> pd < cd
      [] edge_strategy = "first_encounter_only" -> InDegree(es, cid) = 0

\* step 6: create_edge of the matching URL rule overrides the edge rules,
\* which override the strategy
ShouldCreateEdge(es, parent, link, cid, isNew, cd) ==
    LET rule == MatchRule(link)
        er == EdgeRuleDecision(edge_rules, parent.url, link, parent.depth,
                               cd, 1)
    IN IF rule.create_edge # "null" THEN rule.create_edge = "true"
       ELSE IF er # "null" THEN er = "true"
       ELSE StrategyAllows(es, cid, isNew, parent.depth, cd)

\* steps 3-7 for one link of the parent with id pid
ProcessLink(g, pid, link) ==
    LET scan == ShouldScan(link)
        rule == MatchRule(link)
        existing == GetNodeByUrl(g.nodes, link)
        isNew == existing = 0
        cid == IF isNew THEN g.nextId ELSE existing
        child == IF isNew
                 THEN ApplyToNode(rule,
                        [Node(link, g.nodes[pid].depth + 1)
                            EXCEPT !.priority = child_priorities[link]])
                 ELSE g.nodes[existing]
        edge == ShouldCreateEdge(g.edges, g.nodes[pid], link, cid, isNew,
                                 child.depth)
        enqueue == /\ isNew
                   /\ scan
                   /\ ~HasUrl(g.queue, g.seen_urls, link)
                   /\ ~Rejects(link, child.priority)
    IN IF ~scan /\ rule.create_edge # "true" THEN g
       ELSE [g EXCEPT
          !.nodes = IF isNew THEN [@ EXCEPT ![cid] = child] ELSE @,
          !.nextId = IF isNew THEN @ + 1 ELSE @,
          !.created_log = IF isNew
                          THEN TriggerNodeCreatedHook(@, link, TRUE)
                          ELSE @,
          !.edges = IF edge THEN @ \cup {<<pid, cid>>} ELSE @,
          !.queue = IF enqueue
                    THEN @ \cup {[priority |->
                                     EffectivePriority(link, child.priority),
                                  counter |-> g.counter, url |-> link]}
                    ELSE @,
          !.seen_urls = IF enqueue THEN @ \cup {link} ELSE @,
          !.counter = IF enqueue THEN @ + 1 ELSE @]

RECURSIVE ProcessEach(_, _, _)
ProcessEach(g, pid, links) ==
    IF links = <<>> THEN g
    ELSE ProcessEach(ProcessLink(g, pid, Head(links)), pid, Tail(links))

\* a link processor that does not look at can_create_edges of the parent
ProcessLinksOfAnyParent(g, pid, links) ==
    ProcessEach([g EXCEPT !.link_log =
                    Append(@, [url |-> g.nodes[pid].url, links |-> links])],
                pid, links)

\* link_processor.process_links(parent, links)
ProcessLinks(g, pid, links) ==
    LET called == [g EXCEPT !.link_log =
                      Append(@, [url |-> g.nodes[pid].url, links |-> links])]
    IN IF ~g.nodes[pid].can_create_edges THEN called
       ELSE ProcessEach(called, pid, links)

(***************************************************************************)
(* Coordinator                                                             *)
(***************************************************************************)
\* the hooks a crawl is configured with: one that drops the links back to
\* the seed, one that keeps the first link only, one that raises
Hooks == {"no_seed", "first", "broken"}

RECURSIVE WithoutSeed(_)
WithoutSeed(links) ==
    IF links = <<>> THEN <<>>
    ELSE IF Head(links) = 1 THEN WithoutSeed(Tail(links))
    ELSE <<Head(links)>> \o WithoutSeed(Tail(links))

\* await hook(node, links)
HookResult(hook, links) ==
    [raised |-> hook = "broken",
     links |-> CASE hook = "no_seed" -> WithoutSeed(links)
                 [] hook = "first" ->
                       IF links = <<>> THEN <<>> ELSE <<Head(links)>>
                 [] hook = "broken" -> <<>>]

\* a loop that walks the hooks from the last to the first
HookFromEnd(hooks, i) == hooks[Len(hooks) + 1 - i]

\* the i-th hook the loop calls: array order
HookAt(hooks, i) == hooks[i]

\* a loop that goes on with no links after a hook raised
LinksLostWithHook(links, r) == IF r.raised THEN <<>> ELSE r.links

\* the list the loop goes on with after a hook: what the hook returned, or
\* the list as it was when the hook raised
LinksAfterHook(links, r) == IF r.raised THEN links ELSE r.links

\* for hook in post_scan_hooks: links = await hook(node, links)
RECURSIVE RunHooks(_, _, _, _)
RunHooks(url, i, links, log) ==
    IF i > Len(post_scan_hooks) THEN [links |-> links, log |-> log]
    ELSE LET hook == HookAt(post_scan_hooks, i)
             r == HookResult(hook, links)
         IN RunHooks(url, i + 1, LinksAfterHook(links, r),
                     Append(log, [url |-> url, hook |-> hook,
                                  received |-> links, raised |-> r.raised,
                                  returned |-> r.links]))

\* the loop body after the scan of one node: mark, incremental check,
\* post-scan hooks, link processing, page count
PostScan(g, id, scanned, links, skip) ==
    LET marked == [g EXCEPT !.nodes[id] = MarkAsScanned(scanned)]
        h == RunHooks(scanned.url, 1, links, g.hook_log)
    IN IF skip THEN marked
       ELSE [ProcessLinks([marked EXCEPT !.hook_log = h.log], id, h.links)
                EXCEPT !.pages_crawled = @ + 1]

\* incremental_strategy.should_skip(node) can only hold for a page whose
\* content hash was computed
MaySkip(out, skip) == skip => incremental /\ out.kind = "html"

\* a coordinator that scans nodes of any depth
ReadyAtAnyDepth(n) == ~n.scanned

\* `if node.depth > max_depth or node.scanned: continue`
Ready(n) == ~(n.depth > max_depth \/ n.scanned)

\* what the plugins decide about one link, and about none
Decide(u, d) == [v \in Urls |-> IF v = u THEN d ELSE "null"]

NoDecisions == [v \in Urls |-> "null"]

\* the priority the plugins give the child behind one link, and behind none
Prefer(u, p) == [v \in Urls |-> IF v = u THEN p ELSE 0]

NoPriorities == [v \in Urls |-> 0]

\* the hook lists a crawl is configured with
HookLists ==
    {<<>>} \cup {hs \in UNION {[1..n -> Hooks] : n \in 1..MaxHooks} :
                    \A i, j \in DOMAIN hs : i # j => hs[i] # hs[j]}

LinkConfig(rules, strategy, erules, filt, decisions, prios, hooks) ==
    [url_rules |-> rules, edge_strategy |-> strategy, edge_rules |-> erules,
     filtered |-> filt, explicit_scan_decisions |-> decisions,
     child_priorities |-> prios, post_scan_hooks |-> hooks]

\* the configurations of rules, strategy, filters, plugin decisions and
\* hooks the crawl is run with
LinkConfigs ==
    {LinkConfig(r, "all", <<>>, {}, NoDecisions, NoPriorities, <<>>) :
        r \in RuleLists}
    \cup {LinkConfig(<<>>, st, <<>>, {}, NoDecisions, NoPriorities, <<>>) :
        st \in EdgeStrategies}
    \cup {LinkConfig(r, "new_only", er, {}, NoDecisions, NoPriorities, <<>>) :
        r \in {<<>>, <<Linked>>, <<Forbid("true")>>}, er \in EdgeRuleLists}
    \cup {LinkConfig(r, "all", <<>>, {}, Decide(2, "true"), p, <<>>) :
        r \in {<<Forbid("null")>>, <<Forbid("true")>>},
        p \in {NoPriorities, Prefer(2, 8)}}
    \cup {LinkConfig(<<>>, "all", <<>>, {MaxUrls}, d, NoPriorities, <<>>) :
        d \in {NoDecisions, Decide(MaxUrls, "true"), Decide(2, "false")}}
    \cup {LinkConfig(<<>>, "all", <<>>, {}, NoDecisions, NoPriorities, hs) :
        hs \in HookLists}
    \cup {LinkConfig(<<Linked>>, "max_in_degree", <<>>, {}, NoDecisions,
                     NoPriorities, <<>>),
          LinkConfig(<<>>, "max_in_degree", <<ForceCreate>>, {}, NoDecisions,
                     NoPriorities, <<>>),
          LinkConfig(<<>>, "max_in_degree", <<SkipBack>>, {}, NoDecisions,
                     NoPriorities, <<>>)}

\* a crawl without rules, filters, plugin decisions or hooks
DefaultLinkConfig ==
    LinkConfig(<<>>, "all", <<>>, {}, NoDecisions, NoPriorities, <<>>)

\* the limits a crawl is run with.  The default configuration runs one
\* node at a time with every page and depth limit, incrementally and in
\* batches below the widest page limit; the other configurations run below
\* the widest page limit, one node at a time and in batches of one.
Limits(c) ==
    IF c = DefaultLinkConfig
    THEN [max_pages : 1..MaxPages, max_depth : 0..MaxDepth,
          batch_size : {0}, incremental : {FALSE}]
         \cup [max_pages : 1..(MaxPages - 1), max_depth : {MaxDepth},
               batch_size : 0..1, incremental : {TRUE}]
         \cup [max_pages : 1..(MaxPages - 1), max_depth : {MaxDepth},
               batch_size : 1..MaxK, incremental : {FALSE}]
    ELSE [max_pages : {MaxPages - 1}, max_depth : {MaxDepth},
          batch_size : 0..1, incremental : {FALSE}]

InitCrawl ==
    /\ GraphIdle
    /\ InitSched
    /\ cpc = "start"
    /\ pages_crawled = 0
    /\ scanRaised = FALSE
    /\ fetched = {}
    /\ hook_log = <<>>
    /\ link_log = <<>>
    /\ created_log = [u \in Urls |-> 0]
    /\ \E c \in LinkConfigs :
          /\ \E l \in Limits(c) :
                /\ max_pages = l.max_pages
                /\ max_depth = l.max_depth
                /\ batch_size = l.batch_size
                /\ incremental = l.incremental
          /\ url_rules = c.url_rules
          /\ edge_strategy = c.edge_strategy
          /\ edge_rules = c.edge_rules
          /\ filtered = c.filtered
          /\ explicit_scan_decisions = c.explicit_scan_decisions
          /\ child_priorities = c.child_priorities
          /\ post_scan_hooks = c.post_scan_hooks

\* enqueue(root_node): the seed at depth 0
CrawlStart ==
    /\ cpc = "start"
    /\ nodes' = [nodes EXCEPT ![nextId] = ApplyToNode(MatchRule(1), Node(1, 0))]
    /\ nextId' = nextId + 1
    /\ IF Rejects(1, 0)
       THEN UNCHANGED <<queue, seen_urls, counter>>
       ELSE /\ queue' = {[priority |-> EffectivePriority(1, 0),
                          counter |-> counter, url |-> 1]}
            /\ seen_urls' = {1}
            /\ counter' = counter + 1
    /\ created_log' = TriggerNodeCreatedHook(created_log, 1, TRUE)
    /\ cpc' = "loop"
    /\ UNCHANGED <<edges, dispensed, lastOp, url_rules, pages_crawled,
                   scanRaised, fetched, hook_log, link_log, configVars>>

Continues == cpc = "loop" /\ queue # {} /\ pages_crawled < max_pages

\* the loop ends: empty scheduler or pages_crawled >= max_pages
CrawlFinish ==
    /\ cpc = "loop"
    /\ ~Continues
    /\ cpc' = "done"
    /\ UNCHANGED <<graphVars, schedVars, pages_crawled, scanRaised, fetched,
                   hook_log, link_log, created_log, configVars>>

\* the loop ends early: the wall clock passed the timeout, or cancellation
CrawlTimeout ==
    /\ Continues
    /\ cpc' = "done"
    /\ UNCHANGED <<graphVars, schedVars, pages_crawled, scanRaised, fetched,
                   hook_log, link_log, created_log, configVars>>

\* one iteration that dequeues a node and drops it
CrawlSkip ==
    /\ Continues
    /\ batch_size = 0
    /\ LET e == Best(queue) IN
        /\ ~Ready(nodes[GetNodeByUrl(nodes, e.url)])
        /\ queue' = queue \ {e}
        /\ dispensed' = [dispensed EXCEPT ![e.url] = @ + 1]
    /\ hook_log' = <<>>
    /\ link_log' = <<>>
    /\ UNCHANGED <<graphVars, seen_urls, counter, lastOp, url_rules, cpc,
                   pages_crawled, scanRaised, fetched, created_log,
                   configVars>>

\* one iteration that dequeues a node a rule or filter keeps from being
\* scanned: process_links(node, []) and on to the next node
CrawlNoScan ==
    /\ Continues
    /\ batch_size = 0
    /\ LET e == Best(queue)
           id == GetNodeByUrl(nodes, e.url)
           g == ProcessLinks([CrawlState EXCEPT !.queue = @ \ {e}], id, <<>>)
       IN /\ Ready(nodes[id])
          /\ ~nodes[id].should_scan
          /\ queue' = g.queue
          /\ link_log' = g.link_log
          /\ dispensed' = [dispensed EXCEPT ![e.url] = @ + 1]
    /\ hook_log' = <<>>
    /\ UNCHANGED <<graphVars, seen_urls, counter, lastOp, url_rules, cpc,
                   pages_crawled, scanRaised, fetched, created_log,
                   configVars>>

\* one iteration that scans a node
CrawlScan(out, skip) ==
    /\ Continues
    /\ batch_size = 0
    /\ MaySkip(out, skip)
    /\ LET e == Best(queue)
           id == GetNodeByUrl(nodes, e.url)
           r == ScanNode(nodes[id], out)
           popped == [CrawlState EXCEPT !.queue = @ \ {e}]
       IN /\ Ready(nodes[id])
          /\ nodes[id].should_scan
          /\ scanRaised' = (scanRaised \/ r.raised)
          /\ fetched' = fetched \cup {e.url}
          /\ \E g \in {IF r.raised
                        THEN [popped EXCEPT !.nodes[id] = r.node]
                        ELSE PostScan(popped, id, r.node, r.links, skip)} :
                /\ nodes' = g.nodes
                /\ edges' = g.edges
                /\ nextId' = g.nextId
                /\ queue' = g.queue
                /\ seen_urls' = g.seen_urls
                /\ counter' = g.counter
                /\ pages_crawled' = g.pages_crawled
                /\ hook_log' = g.hook_log
                /\ link_log' = g.link_log
                /\ created_log' = g.created_log
                /\ dispensed' = [dispensed EXCEPT ![e.url] = @ + 1]
    /\ UNCHANGED <<lastOp, url_rules, cpc, configVars>>

\* the batch the coordinator pulls: up to k ready nodes in heap order; a
\* dequeued node that is not ready is dropped as in the single-node loop,
\* and so is one that is not to be scanned, after process_links(node, [])
RECURSIVE PullBatch(_, _, _, _)
PullBatch(ns, q, k, acc) ==
    IF q = {} \/ k = 0 THEN [acc EXCEPT !.rest = q]
    ELSE LET e == Best(q)
             id == GetNodeByUrl(ns, e.url)
             popped == [acc EXCEPT !.popped = @ \cup {e.url}]
         IN IF ~Ready(ns[id]) THEN PullBatch(ns, q \ {e}, k, popped)
            ELSE IF ~ns[id].should_scan
            THEN PullBatch(ns, q \ {e}, k,
                           [popped EXCEPT !.unscanned = Append(@, id)])
            ELSE PullBatch(ns, q \ {e}, k - 1,
                           [popped EXCEPT !.batch = Append(@, id)])

Pulled ==
    PullBatch(nodes, queue, batch_size,
              [batch |-> <<>>, rest |-> {}, popped |-> {},
               unscanned |-> <<>>])

\* process_links(node, []) for each pulled node that is not to be scanned
RECURSIVE DriveUnscanned(_, _)
DriveUnscanned(g, ids) ==
    IF ids = <<>> THEN g
    ELSE DriveUnscanned(ProcessLinks(g, Head(ids), <<>>), Tail(ids))

\* the URLs of the batch given to transport.fetch_many
BatchUrls(batch) == {nodes[batch[j]].url : j \in 1..Len(batch)}

\* the nodes after scanner.scan_batch(batch) ran over the fetch results
AfterScanBatch(ns, batch, outs) ==
    [i \in Ids |->
        IF \E j \in 1..Len(batch) : batch[j] = i
        THEN LET j == CHOOSE j \in 1..Len(batch) : batch[j] = i
             IN ScanBatchNode(ns[i], outs[j], j, RaisesAt(outs))
        ELSE ns[i]]

\* each (node, links) of the batch goes through the rest of the loop body
RECURSIVE DriveBatch(_, _, _, _, _, _)
DriveBatch(g, before, batch, outs, skips, j) ==
    IF j > Len(batch) THEN g
    ELSE DriveBatch(PostScan(g, batch[j], g.nodes[batch[j]],
                             HandleResult(before[batch[j]], outs[j]).links,
                             skips[j]),
                    before, batch, outs, skips, j + 1)

\* one iteration in batch mode: pull, scan_batch, post-scan pipeline
CrawlBatch ==
    /\ Continues
    /\ batch_size > 0
    /\ \E p \in {Pulled} :
       \E outs \in [1..Len(p.batch) -> BatchOutcomes],
          skips \in [1..Len(p.batch) -> BOOLEAN] :
           /\ RaisesAt(outs) = 0
           /\ \A j \in 1..Len(p.batch) : MaySkip(outs[j], skips[j])
           /\ \E g \in {DriveBatch(
                         DriveUnscanned(
                            [CrawlState EXCEPT
                                !.nodes = AfterScanBatch(nodes, p.batch, outs),
                                !.queue = p.rest],
                            p.unscanned),
                         nodes, p.batch, outs, skips, 1)} :
                 /\ nodes' = g.nodes
                 /\ edges' = g.edges
                 /\ nextId' = g.nextId
                 /\ queue' = g.queue
                 /\ seen_urls' = g.seen_urls
                 /\ counter' = g.counter
                 /\ pages_crawled' = g.pages_crawled
                 /\ hook_log' = g.hook_log
                 /\ link_log' = g.link_log
                 /\ created_log' = g.created_log
           /\ fetched' = fetched \cup BatchUrls(p.batch)
           /\ dispensed' = [u \in Urls |->
                              IF u \in p.popped THEN dispensed[u] + 1
                              ELSE dispensed[u]]
    /\ UNCHANGED <<lastOp, url_rules, cpc, scanRaised, configVars>>

\* one iteration in batch mode in which scan_batch raises: the error is
\* logged and the loop advances without the results of the batch
CrawlBatchRaises ==
    /\ Continues
    /\ batch_size > 0
    /\ \E p \in {Pulled} :
       \E outs \in [1..Len(p.batch) -> BatchOutcomes] :
           /\ RaisesAt(outs) # 0
           /\ nodes' = AfterScanBatch(nodes, p.batch, outs)
           /\ queue' = p.rest
           /\ fetched' = fetched \cup BatchUrls(p.batch)
           /\ link_log' = DriveUnscanned(CrawlState, p.unscanned).link_log
           /\ dispensed' = [u \in Urls |->
                              IF u \in p.popped THEN dispensed[u] + 1
                              ELSE dispensed[u]]
    /\ hook_log' = <<>>
    /\ UNCHANGED <<edges, nextId, seen_urls, counter, lastOp, url_rules, cpc,
                   pages_crawled, scanRaised, created_log, configVars>>

NextCrawl ==
    \/ CrawlStart
    \/ CrawlFinish
    \/ CrawlTimeout
    \/ CrawlSkip
    \/ CrawlNoScan
    \/ \E out \in ScanOutcomes, skip \in BOOLEAN : CrawlScan(out, skip)
    \/ CrawlBatch
    \/ CrawlBatchRaises

(***************************************************************************)
(* Distributed executor: a dispatcher with the central scheduler and the   *)
(* master graph; the tasks crawl_batch(urls, depth) run with the workers   *)
(* and their results come back in any order.                               *)
(***************************************************************************)
\* the links of the pages of a task as the pages have them: each list of
\* LinkLists without and with a fragment on every link, and one URL twice,
\* without and with a fragment
RawLinkLists ==
    {[i \in 1..Len(l) |-> [url |-> l[i], fragment |-> f]] :
        l \in LinkLists, f \in BOOLEAN}
    \cup {<<[url |-> u, fragment |-> FALSE], [url |-> u, fragment |-> TRUE]>> :
            u \in Urls}

\* URLUtils.normalize_url(url): the URL without its fragment
NormalizeUrl(raw) == raw.url

\* discovered_urls of a task result: the links of its pages, normalized
DiscoveredUrls(raw) == [i \in 1..Len(raw) |-> NormalizeUrl(raw[i])]

\* the central scheduler and the master graph
DispatchState ==
    [nodes |-> nodes, nextId |-> nextId, queue |-> queue,
     seen_urls |-> seen_urls, counter |-> counter]

\* one discovered URL: its node is merged into the master graph unless the
\* graph has the URL, and scheduler.add_node is called for it
FeedBackUrl(g, url, depth) ==
    LET known == GetNodeByUrl(g.nodes, url) # 0
        enqueue == ~HasUrl(g.queue, g.seen_urls, url) /\ ~Rejects(url, 0)
    IN [g EXCEPT
          !.nodes = IF known THEN @
                    ELSE [@ EXCEPT ![g.nextId] =
                             ApplyToNode(MatchRule(url), Node(url, depth))],
          !.nextId = IF known THEN @ ELSE @ + 1,
          !.queue = IF enqueue
                    THEN @ \cup {[priority |-> EffectivePriority(url, 0),
                                  counter |-> g.counter, url |-> url]}
                    ELSE @,
          !.seen_urls = IF enqueue THEN @ \cup {url} ELSE @,
          !.counter = IF enqueue THEN @ + 1 ELSE @]

\* the discovered URLs of a task are fed back into the scheduler
RECURSIVE FeedBack(_, _, _)
FeedBack(g, discovered, depth) ==
    IF discovered = <<>> THEN g
    ELSE FeedBack(FeedBackUrl(g, Head(discovered), depth), Tail(discovered),
                  depth)

\* the nodes of the URLs of a task, marked as scanned
RECURSIVE MarkTask(_, _)
MarkTask(ns, task) ==
    IF task = <<>> THEN ns
    ELSE MarkTask([ns EXCEPT ![GetNodeByUrl(ns, Head(task))] =
                      MarkAsScanned(@)],
                  Tail(task))

\* the next batch: up to k URLs from the scheduler, best first
RECURSIVE PullUrls(_, _, _)
PullUrls(q, k, acc) ==
    IF q = {} \/ k = 0 THEN [urls |-> acc, rest |-> q]
    ELSE PullUrls(q \ {Best(q)}, k - 1, Append(acc, Best(q).url))

\* depth of a task: that of its first URL in the master graph
TaskDepth(ns, task) == ns[GetNodeByUrl(ns, task[1])].depth

InitDispatch ==
    /\ GraphIdle
    /\ InitSched
    /\ dpc = "start"
    /\ task_batch_size \in 1..MaxK
    /\ submitted = <<>>
    /\ in_flight = {}
    /\ reported = <<>>
    /\ dead_letter = {}

\* the seed goes to the scheduler and to the master graph
DispatchStart ==
    /\ dpc = "start"
    /\ \E g \in {FeedBack(DispatchState, <<1>>, 0)} :
          /\ nodes' = g.nodes
          /\ nextId' = g.nextId
          /\ queue' = g.queue
          /\ seen_urls' = g.seen_urls
          /\ counter' = g.counter
    /\ dpc' = "loop"
    /\ UNCHANGED <<edges, dispensed, lastOp, url_rules, task_batch_size,
                   submitted, in_flight, reported, dead_letter>>

\* a batch of URLs is taken from the scheduler and submitted as one task
DispatchSubmit ==
    /\ dpc = "loop"
    /\ queue # {}
    /\ Cardinality(in_flight) < MaxTasks
    /\ Len(submitted) < 2 * MaxUrls
    /\ \E b \in {PullUrls(queue, task_batch_size, <<>>)} :
          /\ queue' = b.rest
          /\ submitted' = Append(submitted, b.urls)
          /\ dispensed' = [u \in Urls |->
                             IF \E i \in 1..Len(b.urls) : b.urls[i] = u
                             THEN dispensed[u] + 1 ELSE dispensed[u]]
    /\ in_flight' = in_flight \cup {Len(submitted) + 1}
    /\ UNCHANGED <<graphVars, seen_urls, counter, lastOp, url_rules, dpc,
                   task_batch_size, reported, dead_letter>>

\* the result of task t has come: its partial graph is merged into the
\* master graph and its discovered URLs are fed back into the scheduler
DispatchResult(t, raw) ==
    /\ t \in in_flight
    /\ \E g \in {FeedBack([DispatchState EXCEPT
                              !.nodes = MarkTask(@, submitted[t])],
                          DiscoveredUrls(raw),
                          TaskDepth(nodes, submitted[t]) + 1)} :
          /\ nodes' = g.nodes
          /\ nextId' = g.nextId
          /\ queue' = g.queue
          /\ seen_urls' = g.seen_urls
          /\ counter' = g.counter
    /\ in_flight' = in_flight \ {t}
    /\ reported' = Append(reported, [task |-> t,
                                     discovered |-> DiscoveredUrls(raw)])
    /\ UNCHANGED <<edges, dispensed, lastOp, url_rules, dpc, task_batch_size,
                   submitted, dead_letter>>

\* task t has failed: a fetch failure for every URL of its batch, which
\* goes to the dead-letter queue
DispatchTaskFails(t) ==
    /\ t \in in_flight
    /\ nodes' = MarkTask(nodes, submitted[t])
    /\ dead_letter' =
          dead_letter \cup {submitted[t][i] : i \in 1..Len(submitted[t])}
    /\ in_flight' = in_flight \ {t}
    /\ UNCHANGED <<edges, nextId, schedVars, dpc, task_batch_size, submitted,
                   reported>>

\* the scheduler is empty and no result is to come
DispatchFinish ==
    /\ dpc = "loop"
    /\ queue = {}
    /\ in_flight = {}
    /\ dpc' = "done"
    /\ UNCHANGED <<graphVars, schedVars, task_batch_size, submitted,
                   in_flight, reported, dead_letter>>

NextDispatch ==
    \/ DispatchStart
    \/ DispatchSubmit
    \/ \E t \in 1..(2 * MaxUrls), raw \in RawLinkLists : DispatchResult(t, raw)
    \/ \E t \in 1..(2 * MaxUrls) : DispatchTaskFails(t)
    \/ DispatchFinish

(***************************************************************************)
(* Default tree adapter: the pages of one batch are parsed in the worker   *)
(* threads of _html_executor through the one BeautifulSoupAdapter that     *)
(* get_default_parser returns; their plugins run on the event loop.        *)
(***************************************************************************)
\* BeautifulSoup(html, parser_backend): the tree of a page
TreeOf(html) == [title |-> TitleOf(html), text |-> TextOf(html)]

\* BeautifulSoupAdapter.text: "" without a tree
AdapterText(tree) == IF tree = NoTree THEN 0 ELSE tree.text

InitAdapter ==
    /\ adapter_tree = NoTree
    /\ pagePc = [c \in Calls |-> "idle"]
    /\ pageHtml \in [Calls -> Htmls]
    /\ pageTree = [c \in Calls |-> NoTree]
    /\ pageText = [c \in Calls |-> 0]

\* parse, first statement: self._tree = BeautifulSoup(html, ...)
AdapterParse(c) ==
    /\ pagePc[c] = "idle"
    /\ adapter_tree' = TreeOf(pageHtml[c])
    /\ pagePc' = [pagePc EXCEPT ![c] = "assigned"]
    /\ UNCHANGED <<pageHtml, pageTree, pageText>>

\* parse, second statement: return self._tree
AdapterParseReturns(c) ==
    /\ pagePc[c] = "assigned"
    /\ pageTree' = [pageTree EXCEPT ![c] = adapter_tree]
    /\ pagePc' = [pagePc EXCEPT ![c] = "plugins"]
    /\ UNCHANGED <<adapter_tree, pageHtml, pageText>>

\* a plugin of the page reads context.parser.text
AdapterQuery(c) ==
    /\ pagePc[c] = "plugins"
    /\ pageText' = [pageText EXCEPT ![c] = AdapterText(adapter_tree)]
    /\ pagePc' = [pagePc EXCEPT ![c] = "done"]
    /\ UNCHANGED <<adapter_tree, pageHtml, pageTree>>

NextAdapter ==
    \/ \E c \in Calls : AdapterParse(c)
    \/ \E c \in Calls : AdapterParseReturns(c)
    \/ \E c \in Calls : AdapterQuery(c)

(***************************************************************************)
(* AdaptiveThrottler.  Delays are in tenths of a second, response times   *)
(* in milliseconds as in the deque; the factors 1.5 and 0.8 are applied as *)
(* 150 and 80 hundredths.                                                  *)
(***************************************************************************)
\* window_size and adjustment_interval of the throttlers that are run
MaxWindow == 2
MaxInterval == 2

error_threshold == 10
fast_response_threshold == 500
slowdown_factor == 150
speedup_factor == 80

\* response times a request reports, one below and one above the
\* threshold; 0 is None
ResponseTimes == {200, 900}

\* the delays a throttler is configured with, as <<min_delay, max_delay>>,
\* and its initial delays below, inside and above them
DelayRanges == {<<1, 50>>, <<4, 6>>, <<5, 5>>}
InitialDelays == {0, 5, 60}

\* deque(maxlen=n).append(x)
DequeAppend(q, x, n) ==
    IF Len(q) < n THEN Append(q, x) ELSE Append(Tail(q), x)

RECURSIVE SumSeq(_)
SumSeq(q) == IF q = <<>> THEN 0 ELSE Head(q) + SumSeq(Tail(q))

\* a throttler that leaves the delay as the factors made it
Unclamped(delay, lo, hi) == delay

\* max(self.min_delay, min(self.current_delay, self.max_delay))
Clamp(delay, lo, hi) ==
    LET capped == IF delay < hi THEN delay ELSE hi
    IN IF lo > capped THEN lo ELSE capped

\* _adjust_delay: the new current_delay.  error_rate > threshold is
\* compared as count * 100 > threshold * len, the mean response time as
\* sum < threshold * len.
AdjustDelay(delay, errors, times) ==
    LET error_count == Len(SelectSeq(errors, LAMBDA x : x))
        factored ==
            IF error_count * 100 > error_threshold * Len(errors)
            THEN (delay * slowdown_factor) \div 100
            ELSE IF times # <<>>
                    /\ SumSeq(times) < fast_response_threshold * Len(times)
            THEN (delay * speedup_factor) \div 100
            ELSE delay
    IN IF errors = <<>> THEN delay
       ELSE Clamp(factored, min_delay, max_delay)

InitThrottle ==
    /\ initial_delay \in InitialDelays
    /\ \E r \in DelayRanges : min_delay = r[1] /\ max_delay = r[2]
    /\ current_delay = initial_delay
    /\ recent_errors = <<>>
    /\ recent_response_times = <<>>
    /\ requests_since_adjustment = 0
    /\ throttleOp = "none"

\* the tail of record_success and record_failure
CountRequest(errors, times) ==
    IF requests_since_adjustment + 1 >= MaxInterval
    THEN /\ current_delay' = AdjustDelay(current_delay, errors, times)
         /\ requests_since_adjustment' = 0
         /\ throttleOp' = "adjust"
    ELSE /\ current_delay' = current_delay
         /\ requests_since_adjustment' = requests_since_adjustment + 1
         /\ throttleOp' = "record"

\* record_success(response_time)
RecordSuccess(response_time) ==
    /\ recent_response_times' =
          DequeAppend(recent_response_times, response_time, MaxWindow)
    /\ recent_errors' = DequeAppend(recent_errors, FALSE, MaxWindow)
    /\ CountRequest(recent_errors', recent_response_times')
    /\ UNCHANGED <<initial_delay, min_delay, max_delay>>

\* record_failure(response_time), response_time 0 for None
RecordFailure(response_time) ==
    /\ recent_response_times' =
          IF response_time # 0
          THEN DequeAppend(recent_response_times, response_time, MaxWindow)
          ELSE recent_response_times
    /\ recent_errors' = DequeAppend(recent_errors, TRUE, MaxWindow)
    /\ CountRequest(recent_errors', recent_response_times')
    /\ UNCHANGED <<initial_delay, min_delay, max_delay>>

\* reset()
ThrottleReset ==
    /\ current_delay' = initial_delay
    /\ recent_response_times' = <<>>
    /\ recent_errors' = <<>>
    /\ requests_since_adjustment' = 0
    /\ throttleOp' = "reset"
    /\ UNCHANGED <<initial_delay, min_delay, max_delay>>

NextThrottle ==
    \/ \E t \in ResponseTimes : RecordSuccess(t)
    \/ \E t \in ResponseTimes \cup {0} : RecordFailure(t)
    \/ ThrottleReset

(***************************************************************************)
(* SitemapSpider: robots.txt names sitemaps, a sitemap index names         *)
(* further sitemaps.  parent[k] is 0 for a sitemap that robots.txt names,  *)
(* else the index that names it; an index k may name one more sitemap      *)
(* after these, again[k], which is k itself or the index that names k (0:  *)
(* none).  A urlset holds MaxLeaves URLs, no URL is in two urlsets.        *)
(***************************************************************************)
\* what is behind a sitemap URL: an index, a urlset with URLs, a urlset
\* without, nothing that can be fetched, a body that is not XML, and a
\* parser that raises
SitemapKinds ==
    {"index", "urlset", "empty", "unfetchable", "malformed", "raises"}

\* the sites in which every sitemap is named once: trees
Sites ==
    [parent : {f \in [Sitemaps -> 0..MaxSitemaps] : \A k \in Sitemaps : f[k] < k},
     kind : [Sitemaps -> SitemapKinds],
     again : {[k \in Sitemaps |-> 0]}]

\* the sites in which an index may name itself, or the index that names
\* it; that reference is the last <loc> of the index, and an index that
\* names its parent is the last <loc> of the parent
LoopSites ==
    {st \in [parent : {f \in [Sitemaps -> 0..MaxSitemaps] :
                          \A k \in Sitemaps : f[k] < k},
              kind : [Sitemaps -> {"index", "urlset", "empty"}],
              again : [Sitemaps -> 0..MaxSitemaps]] :
        \A k \in Sitemaps :
           st.again[k] # 0 =>
              /\ st.kind[k] = "index"
              /\ \/ st.again[k] = k
                 \/ /\ st.again[k] = st.parent[k]
                    /\ st.again[st.parent[k]] = 0
                    /\ \A n \in Sitemaps :
                          st.parent[n] = st.parent[k] => n <= k}

\* the sitemap URLs that robots.txt (p = 0) or the index p names, in order
ChildrenOf(p) ==
    SortedSeq({k \in Sitemaps : site.parent[k] = p})
       \o (IF p # 0 /\ site.again[p] # 0 THEN <<site.again[p]>> ELSE <<>>)

\* parser.parse_sitemap(url): fetch and parse errors are caught inside and
\* leave both lists empty
ParseSitemap(k) ==
    [raised |-> site.kind[k] = "raises",
     sitemap_indexes |-> IF site.kind[k] = "index" THEN ChildrenOf(k)
                         ELSE <<>>,
     has_urls |-> site.kind[k] = "urlset",
     urls |-> IF site.kind[k] = "urlset" THEN MaxLeaves ELSE 0]

\* a spider without the try around _process_sitemap
OutcomeUncaught(data) ==
    IF data.raised THEN "propagates"
    ELSE IF data.sitemap_indexes = <<>> /\ ~data.has_urls THEN "error"
    ELSE IF data.sitemap_indexes # <<>> THEN "index"
    ELSE "sitemap"

\* _process_sitemap: the node that is created for what parse_sitemap gave
SitemapOutcome(data) ==
    IF data.raised THEN "error"
    ELSE IF data.sitemap_indexes = <<>> /\ ~data.has_urls THEN "error"
    ELSE IF data.sitemap_indexes # <<>> THEN "index"
    ELSE "sitemap"

\* processor.create_robots_node, create_error_node,
\* create_sitemap_index_node and create_sitemap_node: the node of that kind
\* is stored under the URL with its parent and depth
CreateSitemapNode(ns, url, kind, parent, depth) ==
    [ns EXCEPT ![url] = [kind |-> kind, parent |-> parent, depth |-> depth]]

\* processor.create_url_nodes(url_list, ..., max_urls): a node for each
\* URL of the list up to max_urls; the number of nodes it returns
CreateUrlNodes(url_list, limit) ==
    IF limit = 0 THEN url_list ELSE Min(url_list, limit)

\* a crawl of the sitemap structure only
StructureOnly == {[include_urls |-> FALSE, max_urls |-> 0]}

\* include_urls and max_urls as the caller gives them; max_urls plays no
\* part without include_urls
SpiderConfigs ==
    StructureOnly \cup [include_urls : {TRUE}, max_urls : 0..MaxLeaves]

\* the trees whose sitemaps can all be fetched and parsed
PlainSites ==
    {st \in Sites : \A k \in Sitemaps :
                       st.kind[k] \in {"index", "urlset", "empty"}}

InitSpider(sites, configs) ==
    /\ site \in sites
    /\ smPc = "start"
    /\ smTodo = <<>>
    /\ smNodes = [k \in 0..MaxSitemaps |-> NoSitemapNode]
    /\ \E c \in configs :
          /\ include_urls = c.include_urls
          /\ max_urls = c.max_urls
    /\ urls_extracted = 0
    /\ url_nodes = [k \in Sitemaps |-> 0]
    /\ smCancel = "no"

InitSitemap == InitSpider(Sites, StructureOnly)

\* a crawl with or without the URL leaves, with or without max_urls
InitSitemapUrls == InitSpider(PlainSites, SpiderConfigs)

\* a crawl on a site whose indexes may name themselves or their parent
InitSitemapLoops == InitSpider(LoopSites, StructureOnly)

\* crawl(): robots.txt is parsed and its node created
SitemapStart ==
    /\ smPc = "start"
    /\ smNodes' = CreateSitemapNode(smNodes, 0, "robots", 0, 0)
    /\ smTodo' = [i \in 1..Len(ChildrenOf(0)) |->
                    [url |-> ChildrenOf(0)[i], parent |-> 0, depth |-> 1]]
    /\ smPc' = "running"
    /\ UNCHANGED <<site, include_urls, max_urls, urls_extracted, url_nodes,
                   smCancel>>

\* one _process_sitemap call up to its recursive calls, which come next.
\* The return that follows 'Reached max_urls limit' is the last statement
\* of the call: the caller goes on with its loop.  Depths beyond
\* MaxSitemaps + 1 are not told apart.
ProcessSitemap ==
    /\ smPc = "running"
    /\ smTodo # <<>>
    /\ LET call == Head(smTodo)
           data == ParseSitemap(call.url)
           outcome == SitemapOutcome(data)
       IN IF outcome = "propagates"
          THEN /\ smPc' = "raised"
               /\ smTodo' = <<>>
               /\ UNCHANGED <<smNodes, urls_extracted, url_nodes>>
          ELSE /\ smNodes' = CreateSitemapNode(smNodes, call.url, outcome,
                                                call.parent, call.depth)
               /\ smTodo' =
                     (IF outcome = "index"
                      THEN [i \in 1..Len(data.sitemap_indexes) |->
                              [url |-> data.sitemap_indexes[i],
                               parent |-> call.url,
                               depth |-> Min(call.depth + 1,
                                             MaxSitemaps + 1)]]
                      ELSE <<>>) \o Tail(smTodo)
               /\ IF outcome = "sitemap" /\ include_urls
                  THEN \E created \in {CreateUrlNodes(data.urls, max_urls)} :
                          /\ url_nodes' =
                                [url_nodes EXCEPT ![call.url] = created]
                          /\ urls_extracted' = urls_extracted + created
                  ELSE UNCHANGED <<urls_extracted, url_nodes>>
               /\ UNCHANGED smPc
    /\ UNCHANGED <<site, include_urls, max_urls, smCancel>>

\* crawl() returns the graph
SitemapReturn ==
    /\ smPc = "running"
    /\ smTodo = <<>>
    /\ smPc' = "returned"
    /\ UNCHANGED <<site, smTodo, smNodes, include_urls, max_urls,
                   urls_extracted, url_nodes, smCancel>>

NextSitemap ==
    \/ SitemapStart
    \/ ProcessSitemap
    \/ SitemapReturn

\* a spider whose except clauses catch the cancellation as well
ExceptCatchesAll(exc) == TRUE

\* 'except Exception' in _parse_robots_txt and _process_sitemap:
\* asyncio.CancelledError derives from BaseException
ExceptCatches(exc) == exc = "Exception"

\* crawl_sitemap(timeout=...): asyncio.wait_for cancels crawl() while it
\* awaits the thread that parses robots.txt or the next sitemap.  The
\* CancelledError leaves crawl() unless an except clause on its way
\* catches it: that of _parse_robots_txt gives a robots.txt without
\* sitemaps, that of _process_sitemap an error node for the sitemap.
SitemapTimeout ==
    /\ smCancel = "no"
    /\ smPc = "start" \/ (smPc = "running" /\ smTodo # <<>>)
    /\ smCancel' = "in_flight"
    /\ IF ~ExceptCatches("CancelledError")
       THEN /\ smPc' = "cancelled"
            /\ UNCHANGED <<smTodo, smNodes>>
       ELSE IF smPc = "start"
       THEN /\ smNodes' = CreateSitemapNode(smNodes, 0, "robots", 0, 0)
            /\ smPc' = "running"
            /\ UNCHANGED smTodo
       ELSE /\ smNodes' = CreateSitemapNode(smNodes, Head(smTodo).url, "error",
                                            Head(smTodo).parent,
                                            Head(smTodo).depth)
            /\ smTodo' = Tail(smTodo)
            /\ UNCHANGED smPc
    /\ UNCHANGED <<site, include_urls, max_urls, urls_extracted, url_nodes>>

\* the parser thread that was running when crawl() was cancelled comes to
\* its end; nothing awaits what it returns
SitemapThreadEnds ==
    /\ smCancel = "in_flight"
    /\ smCancel' = "finished"
    /\ UNCHANGED <<site, smPc, smTodo, smNodes, include_urls, max_urls,
                   urls_extracted, url_nodes>>

NextSitemapTimeout ==
    \/ NextSitemap
    \/ SitemapTimeout
    \/ SitemapThreadEnds

(***************************************************************************)
(* Specifications                                                          *)
(***************************************************************************)
NodeInit == InitNode /\ FetchIdle /\ BatchIdle /\ GraphIdle /\ SchedIdle
                     /\ CrawlIdle /\ AdapterIdle /\ ThrottleIdle
                     /\ SitemapIdle /\ DispatchIdle /\ HashIdle /\ MapperIdle
NodeNext == NextNode /\ UNCHANGED <<fetchVars, batchVars, graphVars, lastAdd,
                                    schedVars, crawlVars, adapterVars,
                                    throttleVars, sitemapVars, dispatchVars,
                                    hashVars, mapperVars>>
SpecNode == NodeInit /\ [][NodeNext]_vars

FetchInit == InitFetch /\ NodeIdle /\ BatchIdle /\ GraphIdle /\ SchedIdle
                       /\ CrawlIdle /\ AdapterIdle /\ ThrottleIdle
                       /\ SitemapIdle /\ DispatchIdle /\ HashIdle
                       /\ MapperIdle
FetchNext == NextFetch /\ UNCHANGED <<nodeVars, batchVars, graphVars,
                                      lastAdd, schedVars, crawlVars,
                                      adapterVars, throttleVars, sitemapVars,
                                      dispatchVars, hashVars, mapperVars>>
SpecFetch == FetchInit /\ [][FetchNext]_vars

FetchManyInit == InitFetchMany /\ NodeIdle /\ FetchIdle /\ GraphIdle
                               /\ SchedIdle /\ CrawlIdle /\ AdapterIdle
                               /\ ThrottleIdle /\ SitemapIdle /\ DispatchIdle
                               /\ HashIdle /\ MapperIdle
FetchManyNext == NextFetchMany /\ UNCHANGED <<nodeVars, fetchVars, graphVars,
                                              lastAdd, schedVars, crawlVars,
                                              adapterVars, throttleVars,
                                              sitemapVars, dispatchVars,
                                              hashVars, mapperVars>>
SpecFetchMany == FetchManyInit /\ [][FetchManyNext]_vars

PoolInit == InitPool /\ NodeIdle /\ FetchIdle /\ GraphIdle /\ SchedIdle
                     /\ CrawlIdle /\ AdapterIdle /\ ThrottleIdle
                     /\ SitemapIdle /\ DispatchIdle /\ HashIdle /\ MapperIdle
PoolNext == NextPool /\ UNCHANGED <<nodeVars, fetchVars, graphVars, lastAdd,
                                    schedVars, crawlVars, adapterVars,
                                    throttleVars, sitemapVars, dispatchVars,
                                    hashVars, mapperVars>>
SpecPool == PoolInit /\ [][PoolNext]_vars

GraphInit == InitGraph /\ NodeIdle /\ FetchIdle /\ BatchIdle /\ SchedIdle
                       /\ CrawlIdle /\ AdapterIdle /\ ThrottleIdle
                       /\ SitemapIdle /\ DispatchIdle /\ HashIdle
                       /\ MapperIdle
GraphNext == NextGraph /\ UNCHANGED <<nodeVars, fetchVars, batchVars,
                                      schedVars, crawlVars, adapterVars,
                                      throttleVars, sitemapVars,
                                      dispatchVars, hashVars, mapperVars>>
SpecGraph == GraphInit /\ [][GraphNext]_vars

AddNodeInit == InitGraph /\ NodeIdle /\ FetchIdle /\ BatchIdle /\ SchedIdle
                         /\ CrawlIdle /\ AdapterIdle /\ ThrottleIdle
                         /\ SitemapIdle /\ DispatchIdle /\ HashIdle
                         /\ MapperIdle
AddNodeNext == NextAddNode /\ UNCHANGED <<nodeVars, fetchVars, batchVars,
                                          schedVars, crawlVars, adapterVars,
                                          throttleVars, sitemapVars,
                                          dispatchVars, hashVars, mapperVars>>
SpecAddNode == AddNodeInit /\ [][AddNodeNext]_vars

SchedInit == InitSched /\ NodeIdle /\ FetchIdle /\ BatchIdle /\ GraphIdle
                       /\ CrawlIdle /\ AdapterIdle /\ ThrottleIdle
                       /\ SitemapIdle /\ DispatchIdle /\ HashIdle
                       /\ MapperIdle
SchedNext == NextSched /\ UNCHANGED <<nodeVars, fetchVars, batchVars,
                                      graphVars, lastAdd, crawlVars,
                                      adapterVars, throttleVars, sitemapVars,
                                      dispatchVars, hashVars, mapperVars>>
SpecSched == SchedInit /\ [][SchedNext]_vars

CrawlInit == InitCrawl /\ NodeIdle /\ FetchIdle /\ BatchIdle /\ AdapterIdle
                       /\ ThrottleIdle /\ SitemapIdle /\ DispatchIdle
                       /\ HashIdle /\ MapperIdle
CrawlNext == NextCrawl /\ UNCHANGED <<nodeVars, fetchVars, batchVars,
                                      lastAdd, adapterVars, throttleVars,
                                      sitemapVars, dispatchVars, hashVars,
                                      mapperVars>>
SpecCrawl == CrawlInit /\ [][CrawlNext]_vars

AdapterInit == InitAdapter /\ NodeIdle /\ FetchIdle /\ BatchIdle /\ GraphIdle
                           /\ SchedIdle /\ CrawlIdle /\ ThrottleIdle
                           /\ SitemapIdle /\ DispatchIdle /\ HashIdle
                           /\ MapperIdle
AdapterNext == NextAdapter /\ UNCHANGED <<nodeVars, fetchVars, batchVars,
                                          graphVars, lastAdd, schedVars,
                                          crawlVars, throttleVars,
                                          sitemapVars, dispatchVars,
                                          hashVars, mapperVars>>
SpecAdapter == AdapterInit /\ [][AdapterNext]_vars

ThrottleInit == InitThrottle /\ NodeIdle /\ FetchIdle /\ BatchIdle
                             /\ GraphIdle /\ SchedIdle /\ CrawlIdle
                             /\ AdapterIdle /\ SitemapIdle /\ DispatchIdle
                             /\ HashIdle /\ MapperIdle
ThrottleNext == NextThrottle /\ UNCHANGED <<nodeVars, fetchVars, batchVars,
                                            graphVars, lastAdd, schedVars,
                                            crawlVars, adapterVars,
                                            sitemapVars, dispatchVars,
                                            hashVars, mapperVars>>
SpecThrottle == ThrottleInit /\ [][ThrottleNext]_vars

SitemapInit == InitSitemap /\ NodeIdle /\ FetchIdle /\ BatchIdle /\ GraphIdle
                           /\ SchedIdle /\ CrawlIdle /\ AdapterIdle
                           /\ ThrottleIdle /\ DispatchIdle /\ HashIdle
                           /\ MapperIdle
SitemapNext == NextSitemap /\ UNCHANGED <<nodeVars, fetchVars, batchVars,
                                          graphVars, lastAdd, schedVars,
                                          crawlVars, adapterVars,
                                          throttleVars, dispatchVars,
                                          hashVars, mapperVars>>
SpecSitemap == SitemapInit /\ [][SitemapNext]_vars

SitemapUrlsInit == InitSitemapUrls /\ NodeIdle /\ FetchIdle /\ BatchIdle
                                   /\ GraphIdle /\ SchedIdle /\ CrawlIdle
                                   /\ AdapterIdle /\ ThrottleIdle
                                   /\ DispatchIdle /\ HashIdle /\ MapperIdle
SitemapUrlsNext == NextSitemap /\ UNCHANGED <<nodeVars, fetchVars, batchVars,
                                              graphVars, lastAdd, schedVars,
                                              crawlVars, adapterVars,
                                              throttleVars, dispatchVars,
                                              hashVars, mapperVars>>
SpecSitemapUrls == SitemapUrlsInit /\ [][SitemapUrlsNext]_vars

SitemapLoopsInit == InitSitemapLoops /\ NodeIdle /\ FetchIdle /\ BatchIdle
                                     /\ GraphIdle /\ SchedIdle /\ CrawlIdle
                                     /\ AdapterIdle /\ ThrottleIdle
                                     /\ DispatchIdle /\ HashIdle /\ MapperIdle
SitemapLoopsNext == NextSitemap /\ UNCHANGED <<nodeVars, fetchVars,
                                               batchVars, graphVars, lastAdd,
                                               schedVars, crawlVars,
                                               adapterVars, throttleVars,
                                               dispatchVars, hashVars,
                                               mapperVars>>
SpecSitemapLoops == SitemapLoopsInit /\ [][SitemapLoopsNext]_vars
    /\ WF_vars(SitemapLoopsNext)

SitemapTimeoutInit == InitSitemapUrls /\ NodeIdle /\ FetchIdle /\ BatchIdle
                                      /\ GraphIdle /\ SchedIdle /\ CrawlIdle
                                      /\ AdapterIdle /\ ThrottleIdle
                                      /\ DispatchIdle /\ HashIdle
                                      /\ MapperIdle
SitemapTimeoutNext == NextSitemapTimeout /\ UNCHANGED <<nodeVars, fetchVars,
                                                        batchVars, graphVars,
                                                        lastAdd, schedVars,
                                                        crawlVars,
                                                        adapterVars,
                                                        throttleVars,
                                                        dispatchVars,
                                                        hashVars, mapperVars>>
SpecSitemapTimeout == SitemapTimeoutInit /\ [][SitemapTimeoutNext]_vars

DispatchInit == InitDispatch /\ NodeIdle /\ FetchIdle /\ BatchIdle
                             /\ CrawlIdle /\ AdapterIdle /\ ThrottleIdle
                             /\ SitemapIdle /\ HashIdle /\ MapperIdle
DispatchNext == NextDispatch /\ UNCHANGED <<nodeVars, fetchVars, batchVars,
                                            lastAdd, crawlVars, adapterVars,
                                            throttleVars, sitemapVars,
                                            hashVars, mapperVars>>
SpecDispatch == DispatchInit /\ [][DispatchNext]_vars

HashInit == InitHash /\ FetchIdle /\ BatchIdle /\ GraphIdle /\ SchedIdle
                     /\ CrawlIdle /\ AdapterIdle /\ ThrottleIdle
                     /\ SitemapIdle /\ DispatchIdle /\ MapperIdle
HashNext == NextHash /\ UNCHANGED <<fetchVars, batchVars, graphVars, lastAdd,
                                    schedVars, crawlVars, adapterVars,
                                    throttleVars, sitemapVars, dispatchVars,
                                    mapperVars>>
SpecHash == HashInit /\ [][HashNext]_vars

MapperInit == InitMapper /\ NodeIdle /\ FetchIdle /\ BatchIdle /\ GraphIdle
                         /\ SchedIdle /\ CrawlIdle /\ AdapterIdle
                         /\ ThrottleIdle /\ SitemapIdle /\ DispatchIdle
                         /\ HashIdle
MapperNext == NextMapper /\ UNCHANGED <<nodeVars, fetchVars, batchVars,
                                        graphVars, lastAdd, schedVars,
                                        crawlVars, adapterVars, throttleVars,
                                        sitemapVars, dispatchVars, hashVars>>
SpecMapper == MapperInit /\ [][MapperNext]_vars

(***************************************************************************)
(* Properties                                                              *)
(***************************************************************************)
\* calls that passed the lifecycle check of process_html
PassedCalls == {c \in Calls : callPc[c] # "idle" /\ ~callRejected[c]}

C4_OneResponsePerUrl ==
    /\ fmPc # "raised"
    /\ fmPc = "returned" =>
          /\ Len(results) = Len(urls)
          /\ \A i \in 1..Len(urls) :
                /\ results[i].kind = "FetchResponse"
                /\ results[i].url = urls[i]
                /\ taskResult[i].error => results[i].error

\* C8: one fetch call retries at most the configured number of times,
\* even when a plugin asks for a retry after every failure.
C8_RetriesBounded == attempts - 1 <= max_retries

\* C9: once a plugin has set ctx.cancelled at some stage, no hook of a
\* later stage runs for the request, fetch returns the "Cancelled: ..."
\* response, and no HTTP request is sent if the cancellation came before the
\* request.
C9_CancelShortCircuits ==
    cancelStage # "" =>
        /\ hookLog[Len(hookLog)] = cancelStage
        /\ fpc = "done" => response = "cancelled"
        /\ StageRank(cancelStage) <= 3 => ~requestSent

\* tasks of one fetch_many call that are inside self.fetch
InProgress == {i \in Slots : taskPc[i] = "fetching"}

\* C10: during one fetch_many call, never more than max_concurrent_requests
\* fetches are in progress.
C10_BoundedConcurrency == Cardinality(InProgress) <= max_concurrent

\* the semaphore is exhausted while another task waits for it
C10_Witness ==
    /\ Cardinality(InProgress) = max_concurrent
    /\ \E i \in Slots : taskPc[i] = "waiting"

\* nodes of the graph that are marked scanned
ScannedNodes == {i \in Present(nodes) : nodes[i].scanned}

\* C1: a crawl with max_pages = N returns a graph with at most N scanned
\* nodes, one node at a time and in batch mode alike.
C1_MaxPagesRespected ==
    cpc = "done" => Cardinality(ScannedNodes) <= max_pages

\* C2: the scheduler hands out no URL twice, and add_node for a URL it has
\* seen returns false and leaves the queue as it was, also after the URL
\* was dequeued (so the walk A -> B -> A does not enqueue A again).
C2_NoUrlTwice ==
    /\ [](\A u \in Urls : dispensed[u] <= 1)
    /\ [][\A u \in seen_urls :
            (lastOp' # lastOp /\ lastOp'.op = "add_node" /\ lastOp'.url = u)
            => (lastOp'.result = FALSE /\ queue' = queue
                /\ seen_urls' = seen_urls)]_vars

\* C2 witness: URL 1 was dequeued, URL 2 was dequeued after it, and a new
\* add_node for URL 1 was turned down.
C2_Witness ==
    /\ dispensed[1] = 1
    /\ dispensed[2] = 1
    /\ ~(\E e \in queue : e.url = 1)
    /\ lastOp = [op |-> "add_node", url |-> 1, result |-> FALSE]

\* C5: the source and the target id of every edge of the graph are ids of
\* nodes of the graph.
C5_EdgesResolve ==
    \A e \in edges : e[1] \in Present(nodes) /\ e[2] \in Present(nodes)

\* C6: every node of the returned graph, scanned or only discovered, has
\* depth <= max_depth.
C6_DepthWithinMax ==
    cpc = "done" => \A i \in Present(nodes) : nodes[i].depth <= max_depth

\* C7 as stated: every scanned node of the returned graph is in HTML_STAGE.
C7_ScannedIsHtmlStage ==
    cpc = "done" =>
        \A i \in ScannedNodes : nodes[i].lifecycle_stage = HTML_STAGE

\* C7 as amended: a scanned node of the returned graph whose fetch
\* delivered a response without error and with HTML is in HTML_STAGE.
C7_ScannedWithHtmlIsHtmlStage ==
    cpc = "done" =>
        \A i \in ScannedNodes :
            nodes[i].outcome \in {"html", "parse_raised"}
            => nodes[i].lifecycle_stage = HTML_STAGE

\* C7 witness: a returned graph with a scanned page in HTML_STAGE and a
\* scanned node whose fetch failed.
C7_Witness ==
    /\ cpc = "done"
    /\ \E i \in ScannedNodes :
        nodes[i].outcome = "html" /\ nodes[i].lifecycle_stage = HTML_STAGE
    /\ \E i \in ScannedNodes :
        nodes[i].outcome = "error" /\ nodes[i].lifecycle_stage = URL_STAGE

\* edges that leave node i
OutEdges(i) == {e \in edges : e[1] = i}

\* C13: a node whose fetch came back with an error is marked scanned, its
\* response_status stays null, no link of it is followed, and the loop goes
\* on.
C13_FetchFailureHandled ==
    /\ [](\A i \in Present(nodes) :
            nodes[i].outcome = "error"
            => /\ nodes[i].scanned
               /\ nodes[i].response_status = 0
               /\ OutEdges(i) = {})
    /\ [][\A i \in Ids :
            (nodes[i].outcome = "none" /\ nodes'[i].outcome = "error")
            => cpc' = "loop"]_vars

\* C13 witness: a node's fetch failed and the loop has a further node to go
\* on with.
C13_Witness ==
    /\ \E i \in Present(nodes) :
        nodes[i].outcome = "error" /\ nodes[i].scanned
    /\ Continues

\* C14: scan_node does not raise; when the fetch, the parse or the plugin
\* pipeline fails, the node is marked scanned and no link comes back.
C14_ScanNodeNeverRaises ==
    /\ ~scanRaised
    /\ batch_size = 0 =>
        \A i \in Present(nodes) :
            nodes[i].outcome \in {"parse_raised", "fetch_raised"}
            => nodes[i].scanned /\ OutEdges(i) = {}

\* C14 witness: process_html raised inside scan_node and the node is marked.
C14_Witness ==
    /\ batch_size = 0
    /\ \E i \in Present(nodes) :
        nodes[i].outcome = "parse_raised" /\ nodes[i].scanned
    /\ ~scanRaised

\* the last entry of the plugin log
LastLogged(log) == log[Len(log)]

RunningPcs == {"before_scan", "html_parsed", "write_back", "after_scan",
               "finish"}

\* C15: a node plugin that raises does not take the exception out of the
\* plugin manager: the context stays as it was before that plugin ran, the
\* node is untouched, and process_html goes on with the next plugin or step.
C15_PluginFailureIsolated ==
    /\ [](\A c \in Calls :
            callPc[c] = "raised"
            => \A i \in 1..Len(pluginLog) : pluginLog[i][1] # c)
    /\ [][(Len(pluginLog') = Len(pluginLog) + 1
            /\ LastLogged(pluginLog')[4] = "raised")
          => /\ callCtx'[LastLogged(pluginLog')[1]]
                    = callCtx[LastLogged(pluginLog')[1]]
             /\ callPc'[LastLogged(pluginLog')[1]] \in RunningPcs
             /\ UNCHANGED <<lifecycle_stage, metadata, user_data,
                            content_hash>>]_vars

\* C15 witness: a plugin raised, the next plugin of the same stage ran, and
\* process_html returned.
C15_Witness ==
    /\ \E i \in 1..(Len(pluginLog) - 1) :
        /\ pluginLog[i][4] = "raised"
        /\ pluginLog[i + 1][4] = "ok"
        /\ pluginLog[i + 1][2] = pluginLog[i][2]
    /\ \E c \in Calls : callPc[c] = "returned" /\ ~callRejected[c]

\* the i-th step of the plugin pipeline of one node: stage and plugin
ExpectedStep(i) ==
    IF i <= MaxPlugins THEN <<"ON_BEFORE_SCAN", i>>
    ELSE IF i <= 2 * MaxPlugins THEN <<"ON_HTML_PARSED", i - MaxPlugins>>
    ELSE IF i = 2 * MaxPlugins + 1 THEN <<"_update_from_context", 0>>
    ELSE <<"ON_AFTER_SCAN", i - (2 * MaxPlugins + 1)>>

\* C17: for one node the pipeline runs ON_BEFORE_SCAN, ON_HTML_PARSED, the
\* write-back of the context, ON_AFTER_SCAN, in this order, and the plugins
\* of a stage in registration order, each stage complete before the next.
C17_StagesInOrder ==
    /\ Len(pluginLog) <= 3 * MaxPlugins + 1
    /\ \A i \in 1..Len(pluginLog) :
        <<pluginLog[i][2], pluginLog[i][3]>> = ExpectedStep(i)

\* C17 witness: the whole pipeline ran and process_html returned.
C17_Witness ==
    /\ Len(pluginLog) = 3 * MaxPlugins + 1
    /\ \E c \in Calls : callPc[c] = "returned" /\ ~callRejected[c]

\* C19: get_next returns the waiting node with the highest effective
\* priority, and among nodes of equal priority the one that was added first.
C19_HighestPriorityFirst ==
    [][\A e \in queue \ queue' : \A f \in queue :
          \/ e.priority > f.priority
          \/ e.priority = f.priority /\ e.counter <= f.counter]_vars

\* C19 witness: get_next has just returned URL 2 although URL 1, of lower
\* priority, was added before it and still waits, together with a second
\* entry of URL 1's priority that was added later.
C19_Witness ==
    /\ lastOp = [op |-> "get_next", url |-> 2, result |-> TRUE]
    /\ \E e, f \in queue :
          /\ e.url = 1 /\ e.counter = 0
          /\ f.priority = e.priority /\ f.counter > e.counter

\* C20: add_node returns false and enqueues nothing whenever the first URL
\* rule that matches the node's URL has should_scan = false.
C20_ForbiddenUrlRejected ==
    [][(lastOp' # lastOp /\ lastOp'.op = "add_node"
        /\ MatchRule(lastOp'.url).should_scan = "false")
       => (lastOp'.result = FALSE /\ queue' = queue)]_vars

\* URLs whose first matching URL rule has should_scan = false
ForbiddenUrls == {u \in Urls : MatchRule(u).should_scan = "false"}

\* C11: a URL whose first matching URL rule has should_scan = false is
\* never handed to the transport, whether or not the rule sets create_edge;
\* a node of the graph with such a URL stays unscanned, without a response
\* status.
C11_ForbiddenNeverFetched ==
    /\ fetched \cap ForbiddenUrls = {}
    /\ \A i \in Ids :
          nodes[i].url \in ForbiddenUrls =>
             ~nodes[i].scanned /\ nodes[i].response_status = 0

\* C11 witness: the crawl is over, a plugin asked for URL 2 to be scanned
\* and gave it a priority, the rule that forbids it sets create_edge, its
\* node is in the graph and was dequeued, two other pages were crawled and
\* URL 2 was not fetched.
C11_Witness ==
    /\ cpc = "done"
    /\ 2 \in ForbiddenUrls
    /\ MatchRule(2).create_edge = "true"
    /\ explicit_scan_decisions[2] = "true"
    /\ GetNodeByUrl(nodes, 2) # 0
    /\ dispensed[2] = 1
    /\ pages_crawled >= 2
    /\ 2 \notin fetched

\* C11 second witness: the same with a rule that does not set create_edge
\* and no plugin decision: URL 2 was linked from a crawled page and is
\* neither a node nor fetched.
C11_WitnessAbsent ==
    /\ cpc = "done"
    /\ 2 \in ForbiddenUrls
    /\ MatchRule(2).create_edge = "null"
    /\ explicit_scan_decisions[2] = "null"
    /\ \E l \in 1..Len(link_log) :
          \E k \in 1..Len(link_log[l].links) : link_log[l].links[k] = 2
    /\ GetNodeByUrl(nodes, 2) = 0
    /\ 2 \notin fetched

\* C12: under NEW_ONLY the returned graph has at most nodes - 1 edges,
\* whatever URL rules and edge rules are configured.
C12_NewOnlyForest ==
    (cpc = "done" /\ edge_strategy = "new_only")
    => Cardinality(edges) <= Cardinality(Present(nodes)) - 1

\* some rule forces an edge: a URL rule with create_edge = true or an edge
\* rule with action create
ForcesEdges ==
    \/ \E k \in 1..Len(url_rules) : url_rules[k].create_edge = "true"
    \/ \E k \in 1..Len(edge_rules) : edge_rules[k].action = "create"

\* C12 amended: under NEW_ONLY, when no URL rule has create_edge = true and
\* no edge rule has action create, the returned graph has at most
\* nodes - 1 edges.
C12_NewOnlyForestUnforced ==
    (cpc = "done" /\ edge_strategy = "new_only" /\ ~ForcesEdges)
    => Cardinality(edges) <= Cardinality(Present(nodes)) - 1

\* C12 witness: a NEW_ONLY crawl without forcing rules has ended with three
\* nodes and two edges, and the page crawled last linked back to the seed,
\* which got no edge.
C12_Witness ==
    /\ cpc = "done"
    /\ edge_strategy = "new_only"
    /\ ~ForcesEdges
    /\ Cardinality(Present(nodes)) = 3
    /\ Cardinality(edges) = 2
    /\ \E l \in 1..Len(link_log) :
          /\ link_log[l].url # 1
          /\ \E k \in 1..Len(link_log[l].links) : link_log[l].links[k] = 1
          /\ <<GetNodeByUrl(nodes, link_log[l].url), GetNodeByUrl(nodes, 1)>>
                \notin edges

\* the hook calls and the process_links calls the last loop iteration made
\* for the node with URL u
CallsFor(log, u) == SelectSeq(log, LAMBDA c : c.url = u)

HookedUrls == {hook_log[k].url : k \in 1..Len(hook_log)}

\* C16: an error raised by a post-scan hook is caught per hook: the hooks
\* after it are still called, the next one with the link list as it was
\* before the failing hook, and link processing is still called exactly
\* once for the node.
C16_HookFailureIsolated ==
    \A u \in HookedUrls :
       LET hc == CallsFor(hook_log, u) IN
       (\E i \in 1..Len(hc) : hc[i].raised)
       => /\ Len(hc) = Len(post_scan_hooks)
          /\ \A i \in 1..(Len(hc) - 1) :
                hc[i].raised => hc[i + 1].received = hc[i].received
          /\ Len(CallsFor(link_log, u)) = 1

\* C16 witness: the first of two hooks raised on a list of three links, the
\* second hook got the three links and cut them down, and the link
\* processor was called once, with what the second hook returned.
C16_Witness ==
    /\ Len(hook_log) = 2
    /\ hook_log[1].raised
    /\ Len(hook_log[1].received) = 3
    /\ ~hook_log[2].raised
    /\ hook_log[2].received = hook_log[1].received
    /\ hook_log[2].returned # hook_log[2].received
    /\ link_log = <<[url |-> hook_log[2].url,
                     links |-> hook_log[2].returned]>>

\* C18: the post-scan hooks are called one at a time in configured order;
\* hook i+1 receives the list hook i returned, and the link processor
\* receives the list the last hook returned.
C18_HooksChained ==
    \A u \in HookedUrls :
       LET hc == CallsFor(hook_log, u)
           n == Len(hc)
       IN /\ n = Len(post_scan_hooks)
          /\ \A i \in 1..n : hc[i].hook = post_scan_hooks[i]
          /\ \A i \in 1..(n - 1) :
                ~hc[i].raised => hc[i + 1].received = hc[i].returned
          /\ ~hc[n].raised =>
                CallsFor(link_log, u) = <<[url |-> u,
                                           links |-> hc[n].returned]>>

\* C18 witness: two different hooks ran on a list of three links, each
\* changed the list it got, and the link processor received the list of
\* the second.
C18_Witness ==
    /\ Len(hook_log) = 2
    /\ hook_log[1].hook # hook_log[2].hook
    /\ ~hook_log[1].raised /\ ~hook_log[2].raised
    /\ Len(hook_log[1].received) = 3
    /\ hook_log[1].returned # hook_log[1].received
    /\ hook_log[2].received = hook_log[1].returned
    /\ hook_log[2].returned # hook_log[2].received
    /\ link_log = <<[url |-> hook_log[2].url,
                     links |-> hook_log[2].returned]>>

\* the links the link processor was given in the last loop iteration by
\* parents that may create edges
ProcessedLinks ==
    UNION {{link_log[l].links[k] : k \in 1..Len(link_log[l].links)} :
              l \in {m \in 1..Len(link_log) :
                       nodes[GetNodeByUrl(nodes, link_log[m].url)]
                          .can_create_edges}}

\* C21: the boolean a plugin stored for a link in explicit_scan_decisions
\* decides whether the link is scanned, over URL rules and filters: a link
\* decided true is admitted to the graph and enqueued, a link decided false
\* is kept out of the scheduler.
C21_ExplicitDecisionWins ==
    \A u \in Urls \ {1} :
       /\ (u \in ProcessedLinks /\ explicit_scan_decisions[u] = "true")
             => (GetNodeByUrl(nodes, u) # 0 /\ u \in seen_urls)
       /\ explicit_scan_decisions[u] = "false" => u \notin seen_urls

\* the process_links calls of the step just taken whose parent may not
\* create edges
SilentCalls(log, ns) ==
    {l \in 1..Len(log) : ~ns[GetNodeByUrl(ns, log[l].url)].can_create_edges}

\* C22: when the parent has can_create_edges = false, process_links adds
\* nothing: a step in which links were processed for such parents only
\* leaves the graph with the same nodes and edges and gives the scheduler
\* no new entry.
C22_NoLinksFromLeafParent ==
    [][(link_log' # <<>> /\ link_log' # link_log
          /\ SilentCalls(link_log', nodes') = 1..Len(link_log'))
        => /\ Present(nodes') = Present(nodes)
           /\ edges' = edges
           /\ queue' \subseteq queue
           /\ seen_urls' = seen_urls]_vars

\* a parent that may not create edges was scanned, its page had links, and
\* the graph has neither an edge out of it nor a node for the third URL
C22_Witness ==
    /\ cpc = "loop"
    /\ \E l \in SilentCalls(link_log, nodes) : Len(link_log[l].links) > 1
    /\ GetNodeByUrl(nodes, MaxUrls) = 0
    /\ \A e \in edges : nodes[e[1]].can_create_edges

\* the URLs whose first matching rule has should_scan = false
UnscannableUrls == {u \in Urls \ {1} : MatchRule(u).should_scan = "false"}

\* C23: a link that matches a URL rule with should_scan = false is in the
\* graph, as an unscanned node, if and only if the rule has
\* create_edge = true.
C23_ForbiddenLinkKeptIffEdge ==
    \A u \in UnscannableUrls :
       /\ GetNodeByUrl(nodes, u) # 0 =>
             /\ MatchRule(u).create_edge = "true"
             /\ ~nodes[GetNodeByUrl(nodes, u)].scanned
       /\ (u \in ProcessedLinks /\ MatchRule(u).create_edge = "true") =>
             GetNodeByUrl(nodes, u) # 0

\* C23 for links no plugin has decided to scan
C23_UndecidedForbiddenLinkKeptIffEdge ==
    \A u \in UnscannableUrls :
       explicit_scan_decisions[u] # "true" =>
          /\ GetNodeByUrl(nodes, u) # 0 =>
                /\ MatchRule(u).create_edge = "true"
                /\ ~nodes[GetNodeByUrl(nodes, u)].scanned
          /\ (u \in ProcessedLinks /\ MatchRule(u).create_edge = "true") =>
                GetNodeByUrl(nodes, u) # 0

\* the crawl is over, the seed page linked to the forbidden URL under a
\* rule with create_edge = true, and the URL is an unscanned node
C23_Witness ==
    /\ cpc = "done"
    /\ 2 \in UnscannableUrls
    /\ explicit_scan_decisions[2] = "null"
    /\ MatchRule(2).create_edge = "true"
    /\ <<GetNodeByUrl(nodes, 1), GetNodeByUrl(nodes, 2)>> \in edges
    /\ ~nodes[GetNodeByUrl(nodes, 2)].scanned

\* the seed page linked to the forbidden URL under a rule without
\* create_edge, and the URL is not in the graph
C23_WitnessAbsent ==
    /\ 2 \in UnscannableUrls
    /\ explicit_scan_decisions[2] = "null"
    /\ MatchRule(2).create_edge = "null"
    /\ 2 \in ProcessedLinks
    /\ GetNodeByUrl(nodes, 2) = 0

\* C24: under MAX_IN_DEGREE(k) every node of the graph has at most k
\* incoming edges, whatever URL rules and edge rules are configured.
C24_InDegreeBounded ==
    edge_strategy = "max_in_degree"
    => \A i \in Present(nodes) : InDegree(edges, i) <= MAX_IN_DEGREE_LIMIT

\* C24 amended: under MAX_IN_DEGREE(k), when no URL rule has
\* create_edge = true and no edge rule has action create, every node of the
\* graph has at most k incoming edges.
C24_InDegreeBoundedUnforced ==
    (edge_strategy = "max_in_degree" /\ ~ForcesEdges)
    => \A i \in Present(nodes) : InDegree(edges, i) <= MAX_IN_DEGREE_LIMIT

\* C24 witness: a MAX_IN_DEGREE crawl without forcing rules has ended; a
\* page other than the seed linked to a node that had k incoming edges
\* already, and that link became no edge.
C24_Witness ==
    /\ cpc = "done"
    /\ edge_strategy = "max_in_degree"
    /\ ~ForcesEdges
    /\ \E l \in 1..Len(link_log) :
          /\ link_log[l].url # 1
          /\ \E k \in 1..Len(link_log[l].links) :
                LET t == GetNodeByUrl(nodes, link_log[l].links[k])
                IN /\ t # 0
                   /\ InDegree(edges, t) = MAX_IN_DEGREE_LIMIT
                   /\ <<GetNodeByUrl(nodes, link_log[l].url), t>> \notin edges

\* C25: a graph holds at most one node per URL.  add_node with a URL that
\* is present returns the node the graph has and leaves nodes and edges as
\* they were, unless overwrite is set: then it returns the new node, which
\* is the one the graph has under the URL afterwards, with its own depth,
\* and the old node is gone.
C25_OneNodePerUrl ==
    /\ [](\A i \in Present(nodes), j \in Present(nodes) :
             nodes[i].url = nodes[j].url => i = j)
    /\ [][(lastAdd' # NoAdd /\ lastAdd'.existing # 0) =>
            LET a == lastAdd'
            IN /\ a.existing = GetNodeByUrl(nodes, a.url)
               /\ ~a.overwrite =>
                     /\ a.returned = a.existing
                     /\ nodes' = nodes
                     /\ edges' = edges
               /\ a.overwrite =>
                     /\ a.returned # a.existing
                     /\ a.existing \notin Present(nodes')
                     /\ GetNodeByUrl(nodes', a.url) = a.returned
                     /\ nodes'[a.returned].depth = a.depth]_vars

\* a node was added again with overwrite and another depth, and the graph
\* has the new node under the URL
C25_Witness ==
    /\ lastAdd.overwrite
    /\ lastAdd.existing # 0
    /\ lastAdd.returned # lastAdd.existing
    /\ nodes[lastAdd.returned].depth = MaxDepth
    /\ Cardinality(Present(nodes)) = 2
    /\ edges # {}

\* a node was added again without overwrite and with another depth, and
\* the graph returned the node it had
C25_WitnessKept ==
    /\ lastAdd.existing # 0
    /\ ~lastAdd.overwrite
    /\ lastAdd.returned = lastAdd.existing
    /\ lastAdd.depth # nodes[lastAdd.returned].depth
    /\ edges # {}

C27_AdapterKeepsPagesApart ==
    \A c \in Calls :
       /\ pagePc[c] \in {"plugins", "done"} =>
             pageTree[c] = TreeOf(pageHtml[c])
       /\ pagePc[c] = "done" => pageText[c] = TextOf(pageHtml[c])

\* C28: after a pooled batch has ended, by return or by an exception,
\* every browser launched for it is closed and has no open tab; and at no
\* moment are there more than max_browsers browsers or more than
\* max_tabs_per_browser tabs in one browser.
C28_BrowsersClosedAndCapped ==
    /\ fmPc \in {"returned", "raised"} =>
          \A b \in 1..Len(browsers) : browsers[b] = "closed" /\ pages[b] = 0
    /\ Len(browsers) <= max_browsers
    /\ Len(pages) = Len(browsers)
    /\ \A b \in 1..Len(pages) : pages[b] <= max_tabs_per_browser

\* a batch ended with an exception after its second browser was launched
\* with a first browser full of tabs, and both browsers are closed
C28_Witness ==
    /\ fmPc = "raised"
    /\ Len(browsers) = MaxPool
    /\ Len(tasks) = max_tabs_per_browser
    /\ max_tabs_per_browser > 1
    /\ \A b \in 1..Len(browsers) : browsers[b] = "closed"

\* C29: after every recomputation of the delay,
\* min_delay <= current_delay <= max_delay.
C29_DelayClamped ==
    throttleOp = "adjust" =>
       min_delay <= current_delay /\ current_delay <= max_delay

\* a window full of errors has driven the delay of a throttler that
\* started inside its range up to max_delay
C29_Witness ==
    /\ throttleOp = "adjust"
    /\ min_delay < initial_delay
    /\ initial_delay < max_delay
    /\ current_delay = max_delay
    /\ Len(recent_errors) = MaxWindow

\* fast responses have driven the delay of a throttler that started inside
\* its range down to min_delay
C29_WitnessFast ==
    /\ throttleOp = "adjust"
    /\ min_delay < initial_delay
    /\ initial_delay < max_delay
    /\ current_delay = min_delay

\* the sitemaps the traversal has to come to: robots.txt names them, or an
\* index that it has to come to does
RECURSIVE Reachable(_)
Reachable(k) ==
    \/ site.parent[k] = 0
    \/ site.kind[site.parent[k]] = "index" /\ Reachable(site.parent[k])

\* sitemaps that cannot be fetched or parsed or that name nothing
FailingSitemaps ==
    {k \in Sitemaps :
        \/ site.kind[k] \in {"empty", "unfetchable", "malformed", "raises"}
        \/ site.kind[k] = "index" /\ ChildrenOf(k) = <<>>}

\* C30: a sitemap that cannot be fetched or parsed, or is empty, gets an
\* error node under its parent; the traversal goes on with the remaining
\* sitemaps, so that the returned graph has a node for every sitemap that
\* robots.txt or a reachable index names; and the crawl call does not
\* raise.
C30_BadSitemapBecomesErrorNode ==
    /\ smPc # "raised"
    /\ \A k \in FailingSitemaps :
          smNodes[k].kind \in {"none", "error"}
    /\ smPc = "returned" =>
          \A k \in Sitemaps :
             IF Reachable(k)
             THEN /\ smNodes[k].kind # "none"
                  /\ smNodes[k].parent = site.parent[k]
                  /\ k \in FailingSitemaps => smNodes[k].kind = "error"
             ELSE smNodes[k].kind = "none"

\* the crawl returned; a sitemap whose parser raised has an error node
\* under an index, and the sitemap named after it by the same index has
\* its sitemap node
C30_Witness ==
    /\ smPc = "returned"
    /\ \E k \in Sitemaps, n \in Sitemaps :
          /\ k < n
          /\ site.kind[k] = "raises"
          /\ site.parent[k] # 0
          /\ site.parent[n] = site.parent[k]
          /\ smNodes[k].kind = "error"
          /\ smNodes[n].kind = "sitemap"

\* the URL leaf nodes of the graph
UrlLeaves == SumSeq([k \in Sitemaps |-> url_nodes[k]])

\* C31: a sitemap crawl with max_urls = N creates at most N URL leaf nodes
\* in total, over all the sitemaps it visits.
C31_AtMostMaxUrlsLeaves ==
    max_urls # 0 => UrlLeaves <= max_urls

Submissions(u) ==
    {p \in (1..Len(submitted)) \X (1..MaxK) :
        p[2] <= Len(submitted[p[1]]) /\ submitted[p[1]][p[2]] = u}

\* the results that reported URL u as discovered
ReportsOf(u) ==
    {r \in 1..Len(reported) :
        \E i \in 1..Len(reported[r].discovered) :
           reported[r].discovered[i] = u}

\* C32: in distributed mode no normalized URL is submitted to the workers
\* in more than one task, nor twice in one task, also when several task
\* results report it as discovered.
C32_NoUrlInTwoTasks ==
    \A u \in Urls : Cardinality(Submissions(u)) <= 1

\* the crawl is over; the results of two tasks reported the same URL, the
\* later one after the task of that URL was done, and the URL was
\* submitted once
C32_Witness ==
    /\ dpc = "done"
    /\ \E u \in Urls \ {1} :
          /\ Cardinality(Submissions(u)) = 1
          /\ \E r1 \in ReportsOf(u), r2 \in ReportsOf(u), r3 \in 1..Len(reported) :
                /\ r1 < r3 /\ r3 < r2
                /\ \E p \in Submissions(u) : reported[r3].task = p[1]

C34_NodeCreatedOncePerNode ==
    \A u \in Urls :
        created_log[u] = IF GetNodeByUrl(nodes, u) # 0 THEN 1 ELSE 0

\* a finished crawl whose graph holds a node that two scanned pages linked
\* to, and that left out a URL a scanned page linked to
C34_Witness ==
    /\ cpc = "done"
    /\ \E u \in Urls :
          /\ GetNodeByUrl(nodes, u) # 0
          /\ Cardinality({e \in edges : e[2] = GetNodeByUrl(nodes, u)}) >= 2
    /\ \E u \in Urls : GetNodeByUrl(nodes, u) = 0 /\ ~ShouldScan(u)

\* the strategy does not give the same value at every call
NonDeterministic(strategy) ==
    \E i, j \in DOMAIN strategy : strategy[i] # strategy[j]

\* the first two calls of the strategy give different values
FirstTwoDiffer(strategy) ==
    strategy # <<>> /\ strategy[1] # strategy[2]

\* the first hash computation of the node was rejected and stored no hash
FirstHashRejected ==
    hash_log[1].error = "ValueError" /\ content_hash = 0

\* C35 as stated: a custom hash strategy that returns two different values
\* for the same node is rejected with an error the first time the content
\* hash of the node is computed, and no hash of the strategy is stored.
C35_NonDeterministicRejected ==
    (lifecycle_stage = HTML_STAGE /\ Len(hash_log) = 1
        /\ NonDeterministic(hash_strategy)) => FirstHashRejected

\* C35, amended: a custom hash strategy whose first two calls on the node
\* return different values is rejected with an error the first time the
\* content hash of the node is computed, and that computation stores no
\* hash on the node.
C35_FirstTwoCallsRejected ==
    (lifecycle_stage = HTML_STAGE /\ Len(hash_log) = 1
        /\ FirstTwoDiffer(hash_strategy)) => FirstHashRejected

\* the first computation called a strategy twice, got two different
\* digests and raised
C35_Witness ==
    /\ lifecycle_stage = HTML_STAGE
    /\ Len(hash_log) = 1
    /\ hash_calls = 2
    /\ IsSha256(hash_strategy[1]) /\ IsSha256(hash_strategy[2])
    /\ hash_strategy[1] # hash_strategy[2]
    /\ hash_log[1].error = "ValueError"
    /\ content_hash = 0

\* C36: an attempt that follows a retry starts its hooks at stage 2,
\* PREPARING_REQUEST: the session hooks of stage 1 do not run again for it.
C36_RetryReentersAtPreparing ==
    (attempts > 1 /\ hookLog # <<>>) => hookLog[1] = PREPARING_REQUEST

\* how often the hooks of a stage ran in the current attempt
HookRuns(stage) == Cardinality({i \in 1..Len(hookLog) : hookLog[i] = stage})

\* the current attempt is over: fetch returned, or the REQUEST_FAILED hooks
\* of the attempt are through
AttemptEnded == fpc \in {"done", "after_failed"}
AttemptSucceeded == fpc = "done" /\ response = "ok"
AttemptCancelled == fpc = "done" /\ response = "cancelled"

\* one terminal stage: REQUEST_COMPLETED iff the attempt succeeded,
\* REQUEST_FAILED iff it did not
OneTerminalStage ==
    /\ HookRuns(REQUEST_COMPLETED) = (IF AttemptSucceeded THEN 1 ELSE 0)
    /\ HookRuns(REQUEST_FAILED) = (IF AttemptSucceeded THEN 0 ELSE 1)

\* C38 as stated: each fetch attempt ends in exactly one terminal stage,
\* REQUEST_COMPLETED if and only if it succeeded and REQUEST_FAILED if and
\* only if it failed, never both.
C38_OneTerminalStage == AttemptEnded => OneTerminalStage

\* C38, amended: each fetch attempt that no plugin cancels before the
\* request ends in exactly one terminal stage, REQUEST_COMPLETED if and
\* only if it succeeded and REQUEST_FAILED if and only if it failed, never
\* both.
C38_OneTerminalStageUnlessCancelled ==
    (AttemptEnded /\ ~AttemptCancelled) => OneTerminalStage

\* a second attempt that succeeded after the first one had failed
C38_Witness ==
    /\ attempts = 2
    /\ AttemptSucceeded
    /\ HookRuns(REQUEST_COMPLETED) = 1
    /\ HookRuns(REQUEST_FAILED) = 0

\* C39: a node converted to its DTO and back equals the original on every
\* serialized field, with or without a plugin manager in the restore
\* context.
C39_MapperRoundTrip ==
    mapper_pc = "restored" => mapper_restored = mapper_node

\* C40: the delay the throttler waits is within [min_delay, max_delay] at
\* all times, before the first recomputation and after reset as well, for
\* any constructor arguments.
C40_DelayAlwaysInRange ==
    min_delay <= current_delay /\ current_delay <= max_delay

====
